---- MODULE Spec2Model ----
(***************************************************************************)
(* Model of the notification service: the Notification entity, the         *)
(* notification repository (cache-oriented and relational backends), and   *)
(* the orchestration service (SendNotification, HandleUserEvent).          *)
(***************************************************************************)
EXTENDS Integers, Sequences, FiniteSets, TLC

(***************************************************************************)
(* Bounds of the model.                                                    *)
(***************************************************************************)
\* number of notification ids uuid.New() hands out in one behaviour
MaxIDs == 1
\* how often a caller raises the retry count of one notification
MaxRetries == 1

(***************************************************************************)
(* Domain model: internal/domain/model/notification.go                     *)
(***************************************************************************)
EmailNotification == "email"
SMSNotification == "sms"
PushNotification == "push"

StatusPending == "pending"
StatusSent == "sent"
StatusFailed == "failed"
StatusCancelled == "cancelled"

PriorityHigh == "high"
PriorityMedium == "medium"
PriorityLow == "low"

EmailTemplate == "email"

\* uuid.Nil, the zero uuid; every other uuid is a positive number
UUIDNil == 0

\* a Go map[string]string: the nil map, or a map with its key/value pairs
EmptyKV == [k \in {} |-> ""]
NilMap == [isNil |-> TRUE, kv |-> EmptyKV]
GoMap(f) == [isNil |-> FALSE, kv |-> f]
MapLen(m) == Cardinality(DOMAIN m.kv)
MapHas(m, k, v) == k \in DOMAIN m.kv /\ m.kv[k] = v

\* the nil error; every other error is its message
Nil == "<nil>"
\* fmt.Errorf("<prefix>: %w", err)
Errorf(prefix, err) == prefix \o ": " \o err

NewNotification(recipient, notificationType, templateType, templateID, templateData, id, t) ==
    [ id           |-> id,
      recipient    |-> recipient,
      type         |-> notificationType,
      subject      |-> "",
      content      |-> "",
      status       |-> StatusPending,
      priority     |-> PriorityMedium,
      templateId   |-> templateID,
      templateType |-> templateType,
      templateData |-> templateData,
      metadata     |-> NilMap,
      errorMessage |-> "",
      retryCount   |-> 0,
      createdAt    |-> t,
      updatedAt    |-> t ]

Validate(n) ==
    IF n.recipient = "" THEN "recipient is required"
    ELSE IF n.type = "" THEN "notification type is required"
    ELSE IF n.templateId = UUIDNil THEN "template ID is required"
    ELSE IF n.templateType = "" THEN "template type is required"
    ELSE Nil

\* variant: a sent notification no longer carries its content
UpdateStatus_DropsContent(n, status, errorMessage, t) ==
    [n EXCEPT !.status = status, !.errorMessage = errorMessage, !.updatedAt = t,
              !.content = IF status = StatusSent THEN "" ELSE @]

\* variant: an empty errorMessage leaves the previous one in place
UpdateStatus_KeepsError(n, status, errorMessage, t) ==
    [n EXCEPT !.status = status,
              !.errorMessage = IF errorMessage = "" THEN @ ELSE errorMessage,
              !.updatedAt = t]

UpdateStatus(n, status, errorMessage, t) ==
    [n EXCEPT !.status = status, !.errorMessage = errorMessage, !.updatedAt = t]

\* n.RetryCount++; n.UpdatedAt = time.Now()
IncrementRetryCount(n, t) ==
    [n EXCEPT !.retryCount = @ + 1, !.updatedAt = t]

(***************************************************************************)
(* Repository backends.  A repository state is [store, index, expiry,      *)
(* templateIDs]: store maps an id to the notification FindByID returns for *)
(* it; index is the cache-oriented backend's sorted set per recipient      *)
(* (members id, score) and expiry the instant each of its keys expires;    *)
(* templateIDs are the ids of the rows of the relational templates table,  *)
(* which notifications.template_id references.                             *)
(*                                                                         *)
(* An operation that waits for the backend more than once is an operator   *)
(* with a position pc: applied at "start" it makes the first round trip,   *)
(* and its result names the position of the next one, or "done".  A        *)
(* pipeline is one round trip.                                             *)
(***************************************************************************)
Redis == "redis"
Postgres == "postgres"
Backends == {Redis, Postgres}

\* the clock counts ticks.  A TIMESTAMP WITH TIME ZONE column holds
\* microseconds, a time.Time is finer; CreatedAt.Unix() drops the sub-second
\* part
TicksPerMicrosecond == 2
MicrosPerSecond == 2
TicksPerSecond == MicrosPerSecond * TicksPerMicrosecond
Unix(t) == t \div TicksPerSecond
\* an instant a client writes into a timestamp column: the server rounds it
\* to the nearest microsecond, an instant halfway between two to the even one
Micro(t) ==
    LET whole == t \div TicksPerMicrosecond
        rest  == t % TicksPerMicrosecond
    IN  IF 2 * rest > TicksPerMicrosecond
           \/ (2 * rest = TicksPerMicrosecond /\ whole % 2 = 1)
        THEN (whole + 1) * TicksPerMicrosecond
        ELSE whole * TicksPerMicrosecond
\* CURRENT_TIMESTAMP: the server's clock, which counts microseconds
CurrentTimestamp(t) == t - (t % TicksPerMicrosecond)

Day == 24 * 3600 * TicksPerSecond
\* defaultExpiration = 30 * 24 * time.Hour
DefaultExpiration == 30 * Day

\* json.Marshal / json.Unmarshal of a Notification: `omitempty` drops a nil
\* or empty map, and Unmarshal leaves a dropped map nil
OmitEmpty(m) == IF m.isNil \/ MapLen(m) = 0 THEN NilMap ELSE m
JSONRoundTrip(n) ==
    [n EXCEPT !.templateData = OmitEmpty(@), !.metadata = OmitEmpty(@)]

\* no key carries a time to live
NoExpiry == [records |-> [i \in {} |-> 0], keys |-> [r \in {} |-> 0]]

EmptyRepo ==
    [store |-> [i \in {} |-> 0], index |-> {}, expiry |-> NoExpiry, templateIDs |-> {}]

Put(store, id, n) == [i \in DOMAIN store \cup {id} |-> IF i = id THEN n ELSE store[i]]

\* ZADD key score member: the member's score is replaced when present
ZAdd(index, key, score, member) ==
    {e \in index : ~(e.key = key /\ e.member = member)}
        \cup {[key |-> key, score |-> score, member |-> member]}

SetTTL(ttls, key, at) == [k \in DOMAIN ttls \cup {key} |-> IF k = key THEN at ELSE ttls[k]]
DropTTL(ttls, gone) == [k \in DOMAIN ttls \ gone |-> ttls[k]]

\* SET notification:<id> data defaultExpiration; EXPIRE recipient:<r> defaultExpiration
RedisSaveTTL(exp, n, t) ==
    [records |-> SetTTL(exp.records, n.id, t + DefaultExpiration),
     keys    |-> SetTTL(exp.keys, n.recipient, t + DefaultExpiration)]

\* SET notification:<id> data defaultExpiration: the recipient key is not touched
RedisUpdateTTL(exp, n, t) ==
    [exp EXCEPT !.records = SetTTL(exp.records, n.id, t + DefaultExpiration)]

\* a deleted key has no time to live; a sorted set without members is no key
LiveTTL(exp, store, index) ==
    [records |-> DropTTL(exp.records, DOMAIN exp.records \ DOMAIN store),
     keys    |-> DropTTL(exp.keys, DOMAIN exp.keys \ {e.key : e \in index})]

\* the server at time t: every key whose time to live has elapsed is gone
Expire(repo, t) ==
    LET deadRecords == {id \in DOMAIN repo.expiry.records : repo.expiry.records[id] <= t}
        deadKeys    == {k \in DOMAIN repo.expiry.keys : repo.expiry.keys[k] <= t}
        store       == [i \in DOMAIN repo.store \ deadRecords |-> repo.store[i]]
        index       == {e \in repo.index : e.key \notin deadKeys}
    IN  [repo EXCEPT !.store = store, !.index = index,
                     !.expiry = LiveTTL(repo.expiry, store, index)]

\* one pipeline: SET notification:<id>, ZADD recipient:<r> <CreatedAt.Unix()>
\* <id>, EXPIRE recipient:<r>
RedisSave(repo, n, ioOk, t) ==
    IF ~ioOk
    THEN [err |-> Errorf("error saving notification", "io"), repo |-> repo]
    ELSE [err |-> Nil,
          repo |-> [repo EXCEPT
                      !.store = Put(repo.store, n.id, JSONRoundTrip(n)),
                      !.index = ZAdd(repo.index, n.recipient, Unix(n.createdAt), n.id),
                      !.expiry = RedisSaveTTL(repo.expiry, n, t)]]

\* variant: SET without the EXISTS check
RedisUpdate_Upserts(repo, n, pc, ioOk, t) ==
    IF pc = "start"
    THEN IF ~ioOk
         THEN [pc |-> "done", repo |-> repo,
               err |-> Errorf("error checking notification existence", "io")]
         ELSE [pc |-> "set", repo |-> repo, err |-> Nil]
    ELSE IF ~ioOk
         THEN [pc |-> "done", repo |-> repo,
               err |-> Errorf("error updating notification", "io")]
         ELSE [pc |-> "done", err |-> Nil,
               repo |-> [repo EXCEPT
                           !.store = Put(repo.store, n.id, JSONRoundTrip(n)),
                           !.expiry = RedisUpdateTTL(repo.expiry, n, t)]]

\* at "start": EXISTS notification:<id>; at "set": SET notification:<id> data
\* defaultExpiration
RedisUpdate(repo, n, pc, ioOk, t) ==
    IF pc = "start"
    THEN IF ~ioOk
         THEN [pc |-> "done", repo |-> repo,
               err |-> Errorf("error checking notification existence", "io")]
         ELSE IF n.id \notin DOMAIN repo.store
         THEN [pc |-> "done", repo |-> repo, err |-> "notification not found"]
         ELSE [pc |-> "set", repo |-> repo, err |-> Nil]
    ELSE IF ~ioOk
         THEN [pc |-> "done", repo |-> repo,
               err |-> Errorf("error updating notification", "io")]
         ELSE [pc |-> "done", err |-> Nil,
               repo |-> [repo EXCEPT
                           !.store = Put(repo.store, n.id, JSONRoundTrip(n)),
                           !.expiry = RedisUpdateTTL(repo.expiry, n, t)]]

\* INSERT INTO notifications: id is the primary key, template_id references
\* templates(id) and is never NULL here, created_at and updated_at are
\* timestamp columns
PostgresSave(repo, n, ioOk) ==
    IF ~ioOk
    THEN [err |-> Errorf("failed to save notification", "io"), repo |-> repo]
    ELSE IF n.id \in DOMAIN repo.store
    THEN [err |-> Errorf("failed to save notification", "duplicate key"), repo |-> repo]
    ELSE IF n.templateId \notin repo.templateIDs
    THEN [err |-> Errorf("failed to save notification", "foreign key"), repo |-> repo]
    ELSE [err |-> Nil,
          repo |-> [repo EXCEPT !.store = Put(repo.store, n.id,
                        [n EXCEPT !.createdAt = Micro(@), !.updatedAt = Micro(@)])]]

\* UPDATE notifications SET ..., template_id = $8, ..., updated_at =
\* CURRENT_TIMESTAMP WHERE id = $1; zero rows affected is "not found"
PostgresUpdate(repo, n, ioOk, t) ==
    IF ~ioOk
    THEN [err |-> Errorf("failed to update notification", "io"), repo |-> repo]
    ELSE IF n.id \notin DOMAIN repo.store
    THEN [err |-> "notification not found", repo |-> repo]
    ELSE IF n.templateId \notin repo.templateIDs
    THEN [err |-> Errorf("failed to update notification", "foreign key"), repo |-> repo]
    ELSE [err |-> Nil,
          repo |-> [repo EXCEPT !.store = Put(repo.store, n.id,
                        [n EXCEPT !.createdAt = repo.store[n.id].createdAt,
                                  !.updatedAt = CurrentTimestamp(t)])]]

\* services.NotificationRepository, bound to one backend
RepoSave(b, repo, n, ioOk, t) ==
    IF b = Redis THEN RedisSave(repo, n, ioOk, t) ELSE PostgresSave(repo, n, ioOk)

RepoUpdate(b, repo, n, pc, ioOk, t) ==
    IF b = Redis THEN RedisUpdate(repo, n, pc, ioOk, t)
    ELSE LET r == PostgresUpdate(repo, n, ioOk, t)
         IN  [pc |-> "done", repo |-> r.repo, err |-> r.err]

\* ---- lookups and deletion ----

\* a query returns [err, found]: found is the sequence of notifications
\* handed back (FindByID: none or one)
NotFound == [err |-> Nil, found |-> <<>>]
Failure(err) == [err |-> err, found |-> <<>>]

\* the id argument of FindByID is a string: the string of a uuid (a natural
\* number here) or some other string
NotAUUID == 0 - 1
WellFormedID(idStr) == idStr >= 0

Remove(store, id) == [i \in DOMAIN store \ {id} |-> store[i]]

\* ZREM key member
ZRem(index, key, member) ==
    {e \in index : ~(e.key = key /\ e.member = member)}

\* GET notification:<id>: redis.Nil is "not found", not an error
RedisFindByID(repo, idStr, ioOk) ==
    IF ~ioOk THEN Failure(Errorf("error retrieving notification", "io"))
    ELSE IF idStr \notin DOMAIN repo.store THEN NotFound
    ELSE [err |-> Nil, found |-> <<repo.store[idStr]>>]

\* variant: a missing row is reported as an error
PostgresFindByID_AbsentIsError(repo, idStr, ioOk) ==
    IF ~WellFormedID(idStr)
    THEN Failure(Errorf("invalid notification ID format", "invalid UUID"))
    ELSE IF ~ioOk THEN Failure(Errorf("failed to find notification", "io"))
    ELSE IF idStr \notin DOMAIN repo.store
    THEN Failure(Errorf("failed to find notification", "sql: no rows in result set"))
    ELSE [err |-> Nil, found |-> <<repo.store[idStr]>>]

\* uuid.Parse(id), then SELECT ... WHERE id = $1: sql.ErrNoRows is "not found"
PostgresFindByID(repo, idStr, ioOk) ==
    IF ~WellFormedID(idStr)
    THEN Failure(Errorf("invalid notification ID format", "invalid UUID"))
    ELSE IF ~ioOk THEN Failure(Errorf("failed to find notification", "io"))
    ELSE IF idStr \notin DOMAIN repo.store THEN NotFound
    ELSE [err |-> Nil, found |-> <<repo.store[idStr]>>]

RepoFindByID(b, repo, idStr, ioOk) ==
    IF b = Redis THEN RedisFindByID(repo, idStr, ioOk)
    ELSE PostgresFindByID(repo, idStr, ioOk)

\* the sequences that list every element of S once, in an order where a
\* pair <<x, y>> of the relation before never has y ahead of x
Orderings(S, before) ==
    {s \in [1..Cardinality(S) -> S] :
        /\ \A i, j \in 1..Cardinality(S) : i # j => s[i] # s[j]
        /\ \A i, j \in 1..Cardinality(S) : (i < j) => <<s[j], s[i]>> \notin before}

Min(a, b) == IF a <= b THEN a ELSE b

\* ZREVRANGE key start stop: members by score, highest first, members of
\* equal score in reverse lexicographical order; a negative position counts
\* from the end of the set and stop is inclusive
ZRevRange(index, key, start, stop) ==
    LET entries == {e \in index : e.key = key}
        len     == Cardinality(entries)
        higher  == {p \in entries \X entries :
                       \/ p[1].score > p[2].score
                       \/ (p[1].score = p[2].score /\ p[1].member > p[2].member)}
        sorted  == CHOOSE s \in Orderings(entries, higher) : TRUE
        from    == IF start < 0 THEN (IF start + len < 0 THEN 0 ELSE start + len)
                   ELSE start
        to      == Min(IF stop < 0 THEN stop + len ELSE stop, len - 1)
    IN  IF from > to \/ from >= len THEN <<>>
        ELSE [i \in 1..(to - from + 1) |-> sorted[from + i].member]

\* at "start": ZREVRANGE recipient:<r> offset offset+limit-1, and nothing
\* more when it lists no id; at "get": one pipeline of GETs for the ids
\* listed.  pipe.Exec reports the first failed command, and a GET of a
\* missing key fails with redis.Nil.  A result is [pc, err, found, ids]
RedisFindByRecipient(repo, recipient, limit, offset, pc, ids, ioOk) ==
    IF pc = "start"
    THEN LET listed == ZRevRange(repo.index, recipient, offset, offset + limit - 1)
         IN  IF ~ioOk
             THEN [pc |-> "done", found |-> <<>>, ids |-> <<>>,
                   err |-> Errorf("error retrieving notification IDs", "io")]
             ELSE IF Len(listed) = 0
             THEN [pc |-> "done", found |-> <<>>, ids |-> <<>>, err |-> Nil]
             ELSE [pc |-> "get", found |-> <<>>, ids |-> listed, err |-> Nil]
    ELSE IF ~ioOk
         THEN [pc |-> "done", found |-> <<>>, ids |-> ids,
               err |-> Errorf("error retrieving notifications", "io")]
         ELSE IF \E i \in 1..Len(ids) : ids[i] \notin DOMAIN repo.store
         THEN [pc |-> "done", found |-> <<>>, ids |-> ids,
               err |-> Errorf("error retrieving notifications", "redis: nil")]
         ELSE [pc |-> "done", ids |-> ids, err |-> Nil,
               found |-> [i \in 1..Len(ids) |-> repo.store[ids[i]]]]

\* SELECT ... WHERE recipient = $1 ORDER BY created_at DESC LIMIT $2 OFFSET $3:
\* rows of equal created_at come in any order, so this is the set of
\* possible results
PostgresFindByRecipient(repo, recipient, limit, offset, ioOk) ==
    LET rows == {id \in DOMAIN repo.store : repo.store[id].recipient = recipient}
        newer == {p \in rows \X rows :
                     repo.store[p[1]].createdAt > repo.store[p[2]].createdAt}
    IN  IF ~ioOk THEN {Failure(Errorf("failed to query notifications", "io"))}
        ELSE {[err |-> Nil,
               found |-> [i \in 1..(Min(offset + limit, Len(s)) - Min(offset, Len(s))) |->
                            repo.store[s[offset + i]]]] :
                 s \in Orderings(rows, newer)}

\* what the next round trip of FindByRecipient may give
RepoFindByRecipient(b, repo, recipient, limit, offset, pc, ids, ioOk) ==
    IF b = Redis THEN {RedisFindByRecipient(repo, recipient, limit, offset, pc, ids, ioOk)}
    ELSE {[pc |-> "done", err |-> r.err, found |-> r.found, ids |-> <<>>] :
            r \in PostgresFindByRecipient(repo, recipient, limit, offset, ioOk)}

\* variant: only the record is deleted
RedisDeleteByID_KeepsIndexEntry(repo, idStr, pc, seen, ioOk) ==
    IF pc = "start"
    THEN LET f == RedisFindByID(repo, idStr, ioOk)
         IN  IF f.err # Nil \/ f.found = <<>>
             THEN [pc |-> "done", err |-> f.err, repo |-> repo, seen |-> <<>>]
             ELSE [pc |-> "del", err |-> Nil, repo |-> repo, seen |-> f.found]
    ELSE IF ~ioOk
         THEN [pc |-> "done", repo |-> repo, seen |-> seen,
               err |-> Errorf("error deleting notification", "io")]
         ELSE LET store == Remove(repo.store, idStr)
              IN  [pc |-> "done", err |-> Nil, seen |-> seen,
                   repo |-> [repo EXCEPT
                               !.store = store,
                               !.expiry = LiveTTL(repo.expiry, store, repo.index)]]

\* at "start": FindByID, and nothing more when it fails or finds nothing; at
\* "del": one pipeline, DEL notification:<id> and ZREM recipient:<r> <id>
\* for the recipient of the notification FindByID returned (seen)
RedisDeleteByID(repo, idStr, pc, seen, ioOk) ==
    IF pc = "start"
    THEN LET f == RedisFindByID(repo, idStr, ioOk)
         IN  IF f.err # Nil \/ f.found = <<>>
             THEN [pc |-> "done", err |-> f.err, repo |-> repo, seen |-> <<>>]
             ELSE [pc |-> "del", err |-> Nil, repo |-> repo, seen |-> f.found]
    ELSE IF ~ioOk
         THEN [pc |-> "done", repo |-> repo, seen |-> seen,
               err |-> Errorf("error deleting notification", "io")]
         ELSE LET store == Remove(repo.store, idStr)
                  index == ZRem(repo.index, seen[1].recipient, idStr)
              IN  [pc |-> "done", err |-> Nil, seen |-> seen,
                   repo |-> [repo EXCEPT
                               !.store = store, !.index = index,
                               !.expiry = LiveTTL(repo.expiry, store, index)]]

\* DELETE FROM notifications WHERE id = $1, zero rows affected is an error
PostgresDelete(repo, id, ioOk) ==
    IF ~ioOk
    THEN [err |-> Errorf("failed to delete notification", "io"), repo |-> repo]
    ELSE IF id \notin DOMAIN repo.store
    THEN [err |-> "notification not found", repo |-> repo]
    ELSE [err |-> Nil, repo |-> [repo EXCEPT !.store = Remove(repo.store, id)]]

RepoDelete(b, repo, id, pc, seen, ioOk) ==
    IF b = Redis THEN RedisDeleteByID(repo, id, pc, seen, ioOk)
    ELSE LET r == PostgresDelete(repo, id, ioOk)
         IN  [pc |-> "done", err |-> r.err, repo |-> r.repo, seen |-> <<>>]

(***************************************************************************)
(* Template repositories.  A repository state is [store, index,            *)
(* referenced]: store maps an id to the stored template, index is the      *)
(* cache-oriented backend's set of ids per template type, referenced are   *)
(* the template ids the rows of the relational notifications table refer   *)
(* to.  A template's content is a sequence of parts: literal text, or a    *)
(* placeholder {{.key}}.  Variables and Metadata play no part in these     *)
(* operations and are left out.                                            *)
(***************************************************************************)
WelcomeEmail == "welcome_email"
PasswordReset == "password_reset"

Lit(s) == [lit |-> s, key |-> ""]
Placeholder(k) == [lit |-> "", key |-> k]

\* model.NewTemplate: version 1, active
NewTemplate(name, templateType, subject, content, id, t) ==
    [ id        |-> id,
      name      |-> name,
      type      |-> templateType,
      subject   |-> subject,
      content   |-> content,
      version   |-> 1,
      isActive  |-> TRUE,
      createdAt |-> t,
      updatedAt |-> t ]

EmptyTemplateRepo == [store |-> [i \in {} |-> 0], index |-> {}, referenced |-> {}]

\* SADD key member
SAdd(index, key, member) == index \cup {[key |-> key, member |-> member]}
\* SREM key member
SRem(index, key, member) == index \ {[key |-> key, member |-> member]}
\* SMEMBERS key
SMembers(index, key) == {e.member : e \in {x \in index : x.key = key}}

\* one pipeline: SET template:<id> (no expiration) and SADD
\* template:type:<type> <id>
RedisTemplateSave(repo, template, ioOk) ==
    IF ~ioOk
    THEN [err |-> Errorf("failed to save template", "io"), repo |-> repo]
    ELSE [err |-> Nil,
          repo |-> [repo EXCEPT !.store = Put(repo.store, template.id, template),
                                !.index = SAdd(repo.index, template.type, template.id)]]

\* INSERT INTO templates: the id column is the primary key, created_at and
\* updated_at are timestamp columns
PostgresTemplateSave(repo, template, ioOk) ==
    IF ~ioOk
    THEN [err |-> Errorf("failed to save template", "io"), repo |-> repo]
    ELSE IF template.id \in DOMAIN repo.store
    THEN [err |-> Errorf("failed to save template", "duplicate key"), repo |-> repo]
    ELSE [err |-> Nil,
          repo |-> [repo EXCEPT !.store = Put(repo.store, template.id,
                        [template EXCEPT !.createdAt = Micro(@), !.updatedAt = Micro(@)])]]

RedisTemplateFindByID(repo, id, ioOk) ==
    IF ~ioOk THEN Failure(Errorf("failed to get template", "io"))
    ELSE IF id \notin DOMAIN repo.store THEN NotFound
    ELSE [err |-> Nil, found |-> <<repo.store[id]>>]

PostgresTemplateFindByID(repo, id, ioOk) ==
    IF ~ioOk THEN Failure(Errorf("failed to find template", "io"))
    ELSE IF id \notin DOMAIN repo.store THEN NotFound
    ELSE [err |-> Nil, found |-> <<repo.store[id]>>]

\* the templates of ids, in each order the relation before allows, as the
\* results of a query made in one round trip
Listings(repo, ids, before) ==
    {[pc |-> "done", err |-> Nil, ids |-> <<>>,
      found |-> [i \in 1..Len(s) |-> repo.store[s[i]]]] :
        s \in Orderings(ids, before)}

\* a query that failed in the round trip it made
QueryFailure(err) == [pc |-> "done", err |-> err, ids |-> <<>>, found |-> <<>>]

\* at "start": SMEMBERS template:type:<type>, the members in any order; at
\* "get": FindByID (one GET) for the first member left in ids, which is
\* added to found unless the GET fails or finds nothing.  The results the
\* next round trip may give, each [pc, err, ids, found]
RedisTemplateFindByType(repo, templateType, pc, ids, found, ioOk) ==
    IF pc = "start"
    THEN IF ~ioOk THEN {QueryFailure(Errorf("failed to get template IDs", "io"))}
         ELSE {[pc |-> IF Len(s) = 0 THEN "done" ELSE "get",
                err |-> Nil, ids |-> s, found |-> <<>>] :
                  s \in Orderings(SMembers(repo.index, templateType), {})}
    ELSE LET f == RedisTemplateFindByID(repo, Head(ids), ioOk)
         IN  {[pc |-> IF Len(ids) = 1 THEN "done" ELSE "get",
               err |-> Nil, ids |-> Tail(ids),
               found |-> IF f.err = Nil THEN found \o f.found ELSE found]}

\* FindByType, then keep the templates with IsActive
RedisTemplateFindActiveByType(repo, templateType, pc, ids, found, ioOk) ==
    {IF r.pc = "done" /\ r.err = Nil
     THEN [r EXCEPT !.found = SelectSeq(@, LAMBDA t : t.isActive)]
     ELSE r :
        r \in RedisTemplateFindByType(repo, templateType, pc, ids, found, ioOk)}

\* SELECT ... WHERE type = $1 ORDER BY version DESC
PostgresTemplateFindByType(repo, templateType, ioOk) ==
    LET rows == {id \in DOMAIN repo.store : repo.store[id].type = templateType}
        higher == {p \in rows \X rows : repo.store[p[1]].version > repo.store[p[2]].version}
    IN  IF ~ioOk THEN {QueryFailure(Errorf("failed to query templates", "io"))}
        ELSE Listings(repo, rows, higher)

\* SELECT ... WHERE type = $1 AND is_active = true ORDER BY version DESC
PostgresTemplateFindActiveByType(repo, templateType, ioOk) ==
    LET rows == {id \in DOMAIN repo.store :
                    repo.store[id].type = templateType /\ repo.store[id].isActive}
        higher == {p \in rows \X rows : repo.store[p[1]].version > repo.store[p[2]].version}
    IN  IF ~ioOk THEN {QueryFailure(Errorf("failed to query templates", "io"))}
        ELSE Listings(repo, rows, higher)

\* template.Version++, template.UpdatedAt = time.Now(), then Save
RedisTemplateUpdate(repo, template, ioOk, t) ==
    RedisTemplateSave(repo, [template EXCEPT !.version = @ + 1, !.updatedAt = t], ioOk)

\* UPDATE templates SET name, type, subject, content, version = $8, is_active,
\* updated_at = CURRENT_TIMESTAMP WHERE id = $1
PostgresTemplateUpdate(repo, template, ioOk, t) ==
    IF ~ioOk
    THEN [err |-> Errorf("failed to update template", "io"), repo |-> repo]
    ELSE IF template.id \notin DOMAIN repo.store
    THEN [err |-> "template not found", repo |-> repo]
    ELSE [err |-> Nil,
          repo |-> [repo EXCEPT !.store = Put(repo.store, template.id,
                        [template EXCEPT !.createdAt = repo.store[template.id].createdAt,
                                         !.updatedAt = CurrentTimestamp(t)])]]

\* at "start": FindByID, and nothing more when it fails or finds nothing; at
\* "del": one pipeline, DEL template:<id> and SREM template:type:<type> <id>
\* for the type of the template FindByID returned (seen)
RedisTemplateDelete(repo, id, pc, seen, ioOk) ==
    IF pc = "start"
    THEN LET f == RedisTemplateFindByID(repo, id, ioOk)
         IN  IF f.err # Nil \/ f.found = <<>>
             THEN [pc |-> "done", err |-> f.err, repo |-> repo, seen |-> <<>>]
             ELSE [pc |-> "del", err |-> Nil, repo |-> repo, seen |-> f.found]
    ELSE IF ~ioOk
         THEN [pc |-> "done", repo |-> repo, seen |-> seen,
               err |-> Errorf("failed to delete template", "io")]
         ELSE [pc |-> "done", err |-> Nil, seen |-> seen,
               repo |-> [repo EXCEPT !.store = Remove(repo.store, id),
                                     !.index = SRem(repo.index, seen[1].type, id)]]

\* DELETE FROM templates WHERE id = $1: refused while a notifications row
\* references the template, and zero rows affected is an error
PostgresTemplateDelete(repo, id, ioOk) ==
    IF ~ioOk
    THEN [err |-> Errorf("failed to delete template", "io"), repo |-> repo]
    ELSE IF id \notin DOMAIN repo.store
    THEN [err |-> "template not found", repo |-> repo]
    ELSE IF id \in repo.referenced
    THEN [err |-> Errorf("failed to delete template", "foreign key"), repo |-> repo]
    ELSE [err |-> Nil, repo |-> [repo EXCEPT !.store = Remove(repo.store, id)]]

\* the columns the query of findByName selects: subject and version are not
\* among them, and the Template scanned into keeps their zero values
ByNameColumns(row) == [row EXCEPT !.subject = "", !.version = 0]

\* findByName without the is_active condition of its query
findByName_AnyRow(repo, name, ioOk) ==
    LET rows == {id \in DOMAIN repo.store : repo.store[id].name = name}
    IN  IF ~ioOk THEN {Failure(Errorf("failed to scan template", "io"))}
        ELSE IF rows = {} THEN {Failure(Errorf("template not found", name))}
        ELSE {[err |-> Nil, found |-> <<ByNameColumns(repo.store[id])>>] : id \in rows}

\* SELECT id, name, type, content, ..., is_active, created_at, updated_at
\* WHERE name = $1 AND is_active = true LIMIT 1: any such row
findByName(repo, name, ioOk) ==
    LET rows == {id \in DOMAIN repo.store :
                    repo.store[id].name = name /\ repo.store[id].isActive}
    IN  IF ~ioOk THEN {Failure(Errorf("failed to scan template", "io"))}
        ELSE IF rows = {} THEN {Failure(Errorf("template not found", name))}
        ELSE {[err |-> Nil, found |-> <<ByNameColumns(repo.store[id])>>] : id \in rows}

\* findByName, then the template's content as it is stored: a result is
\* [err, content]
PostgresProcessTemplate(repo, templateName, data, ioOk) ==
    {IF f.err # Nil
     THEN [err |-> Errorf("failed to find template", f.err), content |-> <<>>]
     ELSE [err |-> Nil, content |-> f.found[1].content] :
        f \in findByName(repo, templateName, ioOk)}

\* repository.TemplateRepository, bound to one backend
TemplateSave(b, repo, template, ioOk) ==
    IF b = Redis THEN RedisTemplateSave(repo, template, ioOk)
    ELSE PostgresTemplateSave(repo, template, ioOk)

TemplateUpdate(b, repo, template, ioOk, t) ==
    IF b = Redis THEN RedisTemplateUpdate(repo, template, ioOk, t)
    ELSE PostgresTemplateUpdate(repo, template, ioOk, t)

TemplateDelete(b, repo, id, pc, seen, ioOk) ==
    IF b = Redis THEN RedisTemplateDelete(repo, id, pc, seen, ioOk)
    ELSE LET r == PostgresTemplateDelete(repo, id, ioOk)
         IN  [pc |-> "done", err |-> r.err, repo |-> r.repo, seen |-> <<>>]

TemplateFindByID(b, repo, id, ioOk) ==
    IF b = Redis THEN RedisTemplateFindByID(repo, id, ioOk)
    ELSE PostgresTemplateFindByID(repo, id, ioOk)

TemplateFindByType(b, repo, templateType, pc, ids, found, ioOk) ==
    IF b = Redis THEN RedisTemplateFindByType(repo, templateType, pc, ids, found, ioOk)
    ELSE PostgresTemplateFindByType(repo, templateType, ioOk)

TemplateFindActiveByType(b, repo, templateType, pc, ids, found, ioOk) ==
    IF b = Redis
    THEN RedisTemplateFindActiveByType(repo, templateType, pc, ids, found, ioOk)
    ELSE PostgresTemplateFindActiveByType(repo, templateType, ioOk)

(***************************************************************************)
(* Collaborators of the orchestration service.  Providers and the template *)
(* engine are interfaces (internal/domain/services): a call returns nil or *)
(* an error, the engine also the rendered string.                          *)
(***************************************************************************)
ProviderErrors == {"smtp down"}
SendResults == {Nil} \cup ProviderErrors

RenderedContents == {"<h1>Hello</h1>"}
RenderErrors == {"failed to find template"}
RenderResults ==
    {[err |-> Nil, content |-> c] : c \in RenderedContents}
        \cup {[err |-> e, content |-> ""] : e \in RenderErrors}

\* what the collaborator called in one step of a service call gives: the
\* template engine at "start", the provider at "send", the repository's
\* I/O at the other positions.  A step reads the outcome of the one call it
\* makes
NoOutcome ==
    [ioOk |-> TRUE, sendRes |-> Nil, renderRes |-> CHOOSE r \in RenderResults : r.err = Nil]
StepOutcomes(pc) ==
    CASE pc = "start" -> {[NoOutcome EXCEPT !.renderRes = r] : r \in RenderResults}
      [] pc = "send" -> {[NoOutcome EXCEPT !.sendRes = r] : r \in SendResults}
      [] OTHER -> {[NoOutcome EXCEPT !.ioOk = ok] : ok \in BOOLEAN}

\* entries of the log of collaborator calls made by one service call
SaveCall(n, err) == [op |-> "Save", n |-> n, err |-> err]
UpdateCall(n, err) == [op |-> "Update", n |-> n, err |-> err]
SendEmail(to, subject, content, err) ==
    [op |-> "SendEmail", to |-> to, subject |-> subject, content |-> content, err |-> err]
SendSMS(to, message, err) ==
    [op |-> "SendSMS", to |-> to, content |-> message, err |-> err]
SendPush(token, title, message, err) ==
    [op |-> "SendPush", to |-> token, subject |-> title, content |-> message, err |-> err]
ProcessTemplate(templateName, res) ==
    [op |-> "ProcessTemplate", name |-> templateName, err |-> res.err, content |-> res.content]

ProviderOps == {"SendEmail", "SendSMS", "SendPush"}

(***************************************************************************)
(* Event payloads.  A payload is a byte string: either not JSON at all, or *)
(* a JSON object whose fields are absent, a string or a number.            *)
(***************************************************************************)
Absent == [t |-> "absent", s |-> ""]
Str(s) == [t |-> "string", s |-> s]
Num(s) == [t |-> "number", s |-> s]

Payloads ==
    {[wellFormed |-> FALSE, userId |-> Absent, email |-> Absent]}
        \cup {[wellFormed |-> TRUE, userId |-> Str("u1"), email |-> e] :
                e \in {Absent, Str("a@x"), Num("42")}}

\* json.Unmarshal(payload, &event) into string fields: an absent field stays
\* "", a number in a string field is an error
Unmarshal(payload) ==
    IF ~payload.wellFormed
    THEN [err |-> "invalid character", UserID |-> "", Email |-> ""]
    ELSE IF payload.userId.t = "number" \/ payload.email.t = "number"
    THEN [err |-> "cannot unmarshal number into Go struct field",
          UserID |-> "", Email |-> ""]
    ELSE [err |-> Nil, UserID |-> payload.userId.s, Email |-> payload.email.s]

(***************************************************************************)
(* Orchestration: internal/application/notification/service.go.  A service *)
(* call blocks on each collaborator call it makes, and other calls of the  *)
(* service run meanwhile.  A call in progress is a frame: the method (op), *)
(* the collaborator call it makes next (pc), its arguments (arg, or        *)
(* eventType and payload), the notification it holds (n; created tells     *)
(* whether an event handler has built it), the provider's answer           *)
(* (sendErr), the log of the collaborator calls made so far (calls), what  *)
(* it returns (err, once pc is "done"), and whether another call changed   *)
(* the stored record of its notification meanwhile (overlapped).  Each     *)
(* method is an operator that takes the frame through its next collaborator*)
(* call and gives [repo, fr].                                              *)
(***************************************************************************)
NoPayload == [wellFormed |-> FALSE, userId |-> Absent, email |-> Absent]
NoNotification == NewNotification("", "", "", UUIDNil, NilMap, UUIDNil, 0)

\* no call in progress
Idle ==
    [op |-> "none", pc |-> "done", arg |-> NoNotification, eventType |-> "",
     payload |-> NoPayload, n |-> NoNotification, created |-> FALSE,
     sendErr |-> Nil, calls |-> <<>>, err |-> Nil, overlapped |-> FALSE]

\* SendNotification(ctx, n) is called
SendNotificationCall(n) ==
    [Idle EXCEPT !.op = "SendNotification", !.pc = "save", !.arg = n, !.n = n]

\* HandleUserEvent(ctx, eventType, payload) is called
HandleUserEventCall(eventType, payload) ==
    [Idle EXCEPT !.op = "HandleUserEvent", !.pc = "start", !.eventType = eventType,
                 !.payload = payload]

\* return err
Returned(fr, err) == [fr EXCEPT !.pc = "done", !.err = err]

\* the notification as the status update marks it: failed with the
\* provider's error, or sent
Marked(fr, t) ==
    IF fr.sendErr # Nil THEN UpdateStatus(fr.n, StatusFailed, fr.sendErr, t)
    ELSE UpdateStatus(fr.n, StatusSent, "", t)

\* variant: the stored failure reason is the wrapped error the call returns
finishPipeline_StoresWrapped(b, repo, fr, ioOk, t, sendPrefix) ==
    LET n2  == IF fr.pc # "update" THEN fr.n
               ELSE IF fr.sendErr # Nil
               THEN UpdateStatus(fr.n, StatusFailed, Errorf(sendPrefix, fr.sendErr), t)
               ELSE UpdateStatus(fr.n, StatusSent, "", t)
        upd == RepoUpdate(b, repo, n2, IF fr.pc = "update" THEN "start" ELSE fr.pc, ioOk, t)
    IN  [repo |-> upd.repo,
         fr   |-> IF upd.pc # "done" THEN [fr EXCEPT !.pc = upd.pc, !.n = n2]
                  ELSE Returned([fr EXCEPT !.n = n2,
                                           !.calls = @ \o <<UpdateCall(n2, upd.err)>>],
                           IF fr.sendErr # Nil THEN Errorf(sendPrefix, fr.sendErr) ELSE Nil)]

\* variant: a failed final Update is returned to the caller
finishPipeline_ReturnsUpdateError(b, repo, fr, ioOk, t, sendPrefix) ==
    LET n2  == IF fr.pc = "update" THEN Marked(fr, t) ELSE fr.n
        upd == RepoUpdate(b, repo, n2, IF fr.pc = "update" THEN "start" ELSE fr.pc, ioOk, t)
    IN  [repo |-> upd.repo,
         fr   |-> IF upd.pc # "done" THEN [fr EXCEPT !.pc = upd.pc, !.n = n2]
                  ELSE Returned([fr EXCEPT !.n = n2,
                                           !.calls = @ \o <<UpdateCall(n2, upd.err)>>],
                           IF fr.sendErr # Nil THEN Errorf(sendPrefix, fr.sendErr)
                           ELSE IF upd.err # Nil
                           THEN Errorf("error updating notification status", upd.err)
                           ELSE Nil)]

\* variant: a failed delivery puts the notification back in the queue
finishPipeline_RequeuesOnFailure(b, repo, fr, ioOk, t, sendPrefix) ==
    LET n2  == IF fr.pc # "update" THEN fr.n
               ELSE IF fr.sendErr # Nil
               THEN UpdateStatus(fr.n, StatusPending, fr.sendErr, t)
               ELSE UpdateStatus(fr.n, StatusSent, "", t)
        upd == RepoUpdate(b, repo, n2, IF fr.pc = "update" THEN "start" ELSE fr.pc, ioOk, t)
    IN  [repo |-> upd.repo,
         fr   |-> IF upd.pc # "done" THEN [fr EXCEPT !.pc = upd.pc, !.n = n2]
                  ELSE Returned([fr EXCEPT !.n = n2,
                                           !.calls = @ \o <<UpdateCall(n2, upd.err)>>],
                           IF fr.sendErr # Nil THEN Errorf(sendPrefix, fr.sendErr) ELSE Nil)]

\* variant: a failed send counts as a retry
finishPipeline_CountsRetry(b, repo, fr, ioOk, t, sendPrefix) ==
    LET n2  == IF fr.pc # "update" THEN fr.n
               ELSE IF fr.sendErr # Nil
               THEN [UpdateStatus(fr.n, StatusFailed, fr.sendErr, t) EXCEPT
                        !.retryCount = @ + 1]
               ELSE UpdateStatus(fr.n, StatusSent, "", t)
        upd == RepoUpdate(b, repo, n2, IF fr.pc = "update" THEN "start" ELSE fr.pc, ioOk, t)
    IN  [repo |-> upd.repo,
         fr   |-> IF upd.pc # "done" THEN [fr EXCEPT !.pc = upd.pc, !.n = n2]
                  ELSE Returned([fr EXCEPT !.n = n2,
                                           !.calls = @ \o <<UpdateCall(n2, upd.err)>>],
                           IF fr.sendErr # Nil THEN Errorf(sendPrefix, fr.sendErr) ELSE Nil)]

\* the status update that ends every pipeline, from the provider's answer
\* on: at "update", UpdateStatus and the first round trip of repo.Update; at
\* "set", the second one.  When Update has returned, its error is logged
\* and the delivery error is returned wrapped, or nil
finishPipeline(b, repo, fr, ioOk, t, sendPrefix) ==
    LET n2  == IF fr.pc = "update" THEN Marked(fr, t) ELSE fr.n
        upd == RepoUpdate(b, repo, n2, IF fr.pc = "update" THEN "start" ELSE fr.pc, ioOk, t)
    IN  [repo |-> upd.repo,
         fr   |-> IF upd.pc # "done" THEN [fr EXCEPT !.pc = upd.pc, !.n = n2]
                  ELSE Returned([fr EXCEPT !.n = n2,
                                           !.calls = @ \o <<UpdateCall(n2, upd.err)>>],
                           IF fr.sendErr # Nil THEN Errorf(sendPrefix, fr.sendErr) ELSE Nil)]

\* variant: push notifications are not routed to a provider
dispatch_PushUnrouted(n, sendRes) ==
    CASE n.type = EmailNotification ->
            [ calls |-> <<SendEmail(n.recipient, n.subject, n.content, sendRes)>>,
              err   |-> sendRes ]
      [] n.type = SMSNotification ->
            [ calls |-> <<SendSMS(n.recipient, n.content, sendRes)>>,
              err   |-> sendRes ]
      [] OTHER ->
            [ calls |-> <<>>,
              err   |-> "unsupported notification type: " \o n.type ]

\* the switch on notification.Type of SendNotification
dispatch(n, sendRes) ==
    CASE n.type = EmailNotification ->
            [ calls |-> <<SendEmail(n.recipient, n.subject, n.content, sendRes)>>,
              err   |-> sendRes ]
      [] n.type = SMSNotification ->
            [ calls |-> <<SendSMS(n.recipient, n.content, sendRes)>>,
              err   |-> sendRes ]
      [] n.type = PushNotification ->
            [ calls |-> <<SendPush(n.recipient, n.subject, n.content, sendRes)>>,
              err   |-> sendRes ]
      [] OTHER ->
            [ calls |-> <<>>,
              err   |-> "unsupported notification type: " \o n.type ]

\* variant: the error of the initial Save is logged, the pipeline goes on
SendNotification_GoesOnAfterSaveError(b, repo, fr, o, t) ==
    CASE fr.pc = "save" ->
            LET saved == RepoSave(b, repo, fr.n, o.ioOk, t)
            IN  [repo |-> saved.repo,
                 fr   |-> [fr EXCEPT !.pc = "send",
                                     !.calls = @ \o <<SaveCall(fr.n, saved.err)>>]]
      [] fr.pc = "send" ->
            LET sent == dispatch(fr.n, o.sendRes)
            IN  [repo |-> repo,
                 fr   |-> [fr EXCEPT !.pc = "update", !.sendErr = sent.err,
                                     !.calls = @ \o sent.calls]]
      [] OTHER ->
            finishPipeline(b, repo, fr, o.ioOk, t, "error sending notification")

\* at "save": repo.Save; at "send": the provider picked by the switch on
\* notification.Type; then the status update
SendNotification(b, repo, fr, o, t) ==
    CASE fr.pc = "save" ->
            LET saved == RepoSave(b, repo, fr.n, o.ioOk, t)
                logged == [fr EXCEPT !.calls = @ \o <<SaveCall(fr.n, saved.err)>>]
            IN  [repo |-> saved.repo,
                 fr   |-> IF saved.err # Nil
                          THEN Returned(logged, Errorf("error saving notification", saved.err))
                          ELSE [logged EXCEPT !.pc = "send"]]
      [] fr.pc = "send" ->
            LET sent == dispatch(fr.n, o.sendRes)
            IN  [repo |-> repo,
                 fr   |-> [fr EXCEPT !.pc = "update", !.sendErr = sent.err,
                                     !.calls = @ \o sent.calls]]
      [] OTHER ->
            finishPipeline(b, repo, fr, o.ioOk, t, "error sending notification")

\* the notification an event handler builds
EventNotification(event, content, eventType, subject, id, t) ==
    NewNotification(event.Email, EmailNotification, EmailTemplate, UUIDNil,
        GoMap([k \in {"subject", "content", "eventType", "userId"} |->
                 CASE k = "subject"   -> subject
                   [] k = "content"   -> content
                   [] k = "eventType" -> eventType
                   [] k = "userId"    -> event.UserID]),
        id, t)

\* variant: a render error is not checked, the pipeline goes on
handleEvent_IgnoresRenderError(b, repo, fr, o, id, t, eventType, templateName, subject, decodePrefix, renderPrefix, sendPrefix) ==
    CASE fr.pc = "start" ->
            LET event    == Unmarshal(fr.payload)
                rendered == ProcessTemplate(templateName, o.renderRes)
            IN  [repo |-> repo,
                 fr   |-> IF event.err # Nil
                          THEN Returned(fr, Errorf(decodePrefix, event.err))
                          ELSE [fr EXCEPT !.pc = "save", !.created = TRUE,
                                    !.calls = <<rendered>>,
                                    !.n = EventNotification(event, o.renderRes.content,
                                              eventType, subject, id, t)]]
      [] fr.pc = "save" ->
            LET saved == RepoSave(b, repo, fr.n, o.ioOk, t)
                logged == [fr EXCEPT !.calls = @ \o <<SaveCall(fr.n, saved.err)>>]
            IN  [repo |-> saved.repo,
                 fr   |-> IF saved.err # Nil
                          THEN Returned(logged, Errorf("error saving notification", saved.err))
                          ELSE [logged EXCEPT !.pc = "send"]]
      [] fr.pc = "send" ->
            [repo |-> repo,
             fr   |-> [fr EXCEPT !.pc = "update", !.sendErr = o.sendRes,
                           !.calls = @ \o <<SendEmail(fr.n.recipient, fr.n.subject,
                                                      fr.n.content, o.sendRes)>>]]
      [] OTHER ->
            finishPipeline(b, repo, fr, o.ioOk, t, sendPrefix)

\* the shape shared by the four event handlers.  At "start": json.Unmarshal,
\* templateEngine.ProcessTemplate and model.NewNotification; at "save":
\* repo.Save; at "send": emailProvider.SendEmail; then the status update
handleEvent(b, repo, fr, o, id, t, eventType, templateName, subject, decodePrefix, renderPrefix, sendPrefix) ==
    CASE fr.pc = "start" ->
            LET event    == Unmarshal(fr.payload)
                rendered == ProcessTemplate(templateName, o.renderRes)
            IN  [repo |-> repo,
                 fr   |-> IF event.err # Nil
                          THEN Returned(fr, Errorf(decodePrefix, event.err))
                          ELSE IF o.renderRes.err # Nil
                          THEN Returned([fr EXCEPT !.calls = <<rendered>>],
                                        Errorf(renderPrefix, o.renderRes.err))
                          ELSE [fr EXCEPT !.pc = "save", !.created = TRUE,
                                    !.calls = <<rendered>>,
                                    !.n = EventNotification(event, o.renderRes.content,
                                              eventType, subject, id, t)]]
      [] fr.pc = "save" ->
            LET saved == RepoSave(b, repo, fr.n, o.ioOk, t)
                logged == [fr EXCEPT !.calls = @ \o <<SaveCall(fr.n, saved.err)>>]
            IN  [repo |-> saved.repo,
                 fr   |-> IF saved.err # Nil
                          THEN Returned(logged, Errorf("error saving notification", saved.err))
                          ELSE [logged EXCEPT !.pc = "send"]]
      [] fr.pc = "send" ->
            [repo |-> repo,
             fr   |-> [fr EXCEPT !.pc = "update", !.sendErr = o.sendRes,
                           !.calls = @ \o <<SendEmail(fr.n.recipient, fr.n.subject,
                                                      fr.n.content, o.sendRes)>>]]
      [] OTHER ->
            finishPipeline(b, repo, fr, o.ioOk, t, sendPrefix)

\* variant: an event whose recipient already has a stored notification is
\* dropped as a duplicate
handleUserRegistered_Deduplicates(b, repo, fr, o, id, t) ==
    IF fr.pc = "start"
          /\ \E k \in DOMAIN repo.store :
                repo.store[k].recipient = Unmarshal(fr.payload).Email
    THEN [repo |-> repo, fr |-> Returned(fr, Nil)]
    ELSE handleEvent(b, repo, fr, o, id, t,
             "user.registered", "welcome.html", "Welcome to Our Service",
             "error unmarshaling user registered event",
             "error processing welcome template",
             "error sending welcome email")

\* handleUserRegistered
handleUserRegistered(b, repo, fr, o, id, t) ==
    handleEvent(b, repo, fr, o, id, t,
        "user.registered", "welcome.html", "Welcome to Our Service",
        "error unmarshaling user registered event",
        "error processing welcome template",
        "error sending welcome email")

handleUserVerified(b, repo, fr, o, id, t) ==
    handleEvent(b, repo, fr, o, id, t,
        "user.verified", "email_verified.html", "Email Verification Successful",
        "error unmarshaling user verified event",
        "error processing verification template",
        "error sending verification email")

handlePasswordReset(b, repo, fr, o, id, t) ==
    handleEvent(b, repo, fr, o, id, t,
        "user.password.reset", "password_reset.html", "Password Reset Request",
        "error unmarshaling password reset event",
        "error processing password reset template",
        "error sending password reset email")

handlePasswordChanged(b, repo, fr, o, id, t) ==
    handleEvent(b, repo, fr, o, id, t,
        "user.password.changed", "password_changed.html", "Password Changed Successfully",
        "error unmarshaling password changed event",
        "error processing password changed template",
        "error sending password changed email")

KnownEventTypes ==
    {"user.registered", "user.verified", "user.password.reset", "user.password.changed"}
\* event types a stream message may carry (the message key)
EventTypes == KnownEventTypes \cup {"user.deleted", "bogus.event"}

\* variant: an event type without a handler is dropped without an error
HandleUserEvent_DropsUnknown(b, repo, fr, o, id, t) ==
    CASE fr.eventType = "user.registered" -> handleUserRegistered(b, repo, fr, o, id, t)
      [] fr.eventType = "user.verified" -> handleUserVerified(b, repo, fr, o, id, t)
      [] fr.eventType = "user.password.reset" -> handlePasswordReset(b, repo, fr, o, id, t)
      [] fr.eventType = "user.password.changed" -> handlePasswordChanged(b, repo, fr, o, id, t)
      [] OTHER -> [repo |-> repo, fr |-> Returned(fr, Nil)]

\* the switch on eventType; each handler goes on from where the frame is
HandleUserEvent(b, repo, fr, o, id, t) ==
    CASE fr.eventType = "user.registered" -> handleUserRegistered(b, repo, fr, o, id, t)
      [] fr.eventType = "user.verified" -> handleUserVerified(b, repo, fr, o, id, t)
      [] fr.eventType = "user.password.reset" -> handlePasswordReset(b, repo, fr, o, id, t)
      [] fr.eventType = "user.password.changed" -> handlePasswordChanged(b, repo, fr, o, id, t)
      [] OTHER -> [repo |-> repo, fr |-> Returned(fr, "unknown event type: " \o fr.eventType)]

\* the next collaborator call of the service call in frame fr
ServiceStep(b, repo, fr, o, id, t) ==
    IF fr.op = "SendNotification" THEN SendNotification(b, repo, fr, o, t)
    ELSE HandleUserEvent(b, repo, fr, o, id, t)

(***************************************************************************)
(* The service as a state machine.  Two callers use it at the same time:   *)
(* an action is the next collaborator call of one of them, from the call   *)
(* of a method to its return.                                              *)
(***************************************************************************)
VARIABLES
    backend,    \* the repository implementation the service was built with
    store,      \* id -> stored notification
    index,      \* cache-oriented backend: recipient sorted sets
    now,        \* wall clock (time.Now())
    nextID,     \* the uuid the next uuid.New() returns
    inflight,   \* caller -> the service call it has in progress
    lastCall,   \* the service call that returned in this step, with its arguments
    lastErr,    \* what that call returned
    calls,      \* the collaborator calls it made, in order
    pending,    \* caller -> the repository call it has in progress
    opCall,     \* the domain or repository operation that returned in this step
    opResult,   \* what that operation returned
    expiry,     \* cache-oriented backend: when each key expires
    templates,  \* id -> stored template
    typeIndex,  \* cache-oriented backend: the set of ids per template type
    deliveries, \* redelivery of one event: handled, allOk, providerCalls
    consumer,   \* the stream consumer: ctxDone, Stop and the loop of each claim
    http,       \* the HTTP request answered in this step and its response
    startup     \* Consumer.Start and its consume goroutine

vars == <<backend, store, index, now, nextID, inflight, lastCall, lastErr, calls, pending, opCall, opResult, expiry, templates, typeIndex, deliveries, consumer, http, startup>>

\* the notification repository, the service calls and the direct calls
repoVars == <<store, index, expiry>>
serviceVars == <<inflight, lastCall, lastErr, calls>>
directVars == <<pending, opCall, opResult>>
templateVars == <<templates, typeIndex>>

Callers == {1, 2}

NoTemplate == NewTemplate("", "", "", <<>>, UUIDNil, 0)
\* no service call returned in this step
NoServiceCall ==
    [op |-> "none", n |-> NoNotification, eventType |-> "", payload |-> NoPayload,
     overlapped |-> FALSE]
\* no operation is in progress, none returned in this step.  A direct call
\* is a frame: the operation, the round trip it makes next (pc), its
\* arguments, whether the backend's I/O has worked so far (ioOk), what its
\* round trips have read (seen, ids, found), and the changes other callers
\* made to the repository meanwhile (during)
NoCall ==
    [op |-> "none", pc |-> "done", n |-> NoNotification, template |-> NoTemplate,
     id |-> UUIDNil, recipient |-> "", type |-> "", name |-> "",
     limit |-> 0, offset |-> 0, ioOk |-> TRUE,
     seen |-> <<>>, ids |-> <<>>, found |-> <<>>, during |-> {}]
NoResult == [err |-> Nil, found |-> <<>>]

\* redelivery of one event: how often it was handled, whether render, store
\* and provider succeeded every time, and the provider sends issued in all
NoDeliveries == [handled |-> 0, allOk |-> TRUE, providerCalls |-> 0]

\* Consumer.Start has not been called: where Start and its goroutine are, the
\* channel c.ready refers to (channels are numbered in the order they are
\* made), the channel Start waits on, the channels closed so far, whether a
\* closed channel was closed again, and the Consume calls made
NotStarted ==
    [main |-> "idle", loop |-> "idle", ready |-> 0, held |-> 0, closed |-> {},
     closedTwice |-> FALSE, attempts |-> 0]

\* no HTTP request was answered in this step: the route and input of the
\* request, the status code and error message written, the notifications
\* in the body, and the calls the handler made to the notification service
NoExchange ==
    [route |-> "none", request |-> "", status |-> 0, error |-> "", body |-> <<>>,
     serviceCalls |-> <<>>]

\* the partitions claimed in one consumer-group session
Claims == {1, 2}
NoMessage == [offset |-> 0, key |-> ""]
\* ConsumeClaim of one claim: its position in the loop, the messages waiting
\* in claim.Messages(), whether that channel is closed, the number of
\* messages the broker has delivered, the message in hand, and the calls
\* made for this claim so far
NewClaim ==
    [pc |-> "select", channel |-> <<>>, closed |-> FALSE, produced |-> 0,
     msg |-> NoMessage, log |-> <<>>]
\* NewConsumer: the context is not cancelled, Stop has not been called (stop
\* is its position, stopErr what it returned)
NewConsumer ==
    [ctxDone |-> FALSE, stop |-> "idle", stopErr |-> Nil,
     claims |-> [c \in Claims |-> NewClaim]]

\* what clients put into a SendNotificationRequest
Recipients == {"", "a@x"}
NotificationTypes ==
    {EmailNotification, SMSNotification, PushNotification, "fax", ""}
\* the id of the template requests and fixtures refer to
TemplateRef == 7
Requests ==
    {[recipient |-> "a@x", type |-> ty, templateId |-> TemplateRef] :
        ty \in NotificationTypes}
      \cup {[recipient |-> r, type |-> EmailNotification, templateId |-> tid] :
               r \in Recipients, tid \in {UUIDNil, TemplateRef}}

\* the notification the HTTP handler builds from a request, the one caller
\* of SendNotification: the template type and the retry count are not set
RequestNotification(req, id, t) ==
    [ NewNotification(req.recipient, req.type, "", req.templateId, NilMap, id, t)
        EXCEPT !.subject = "Test Subject", !.content = "Test Content",
               !.priority = PriorityHigh ]

\* the clock starts between two microseconds
Init ==
    /\ backend \in Backends
    /\ store = EmptyRepo.store
    /\ index = EmptyRepo.index
    /\ now = 1
    /\ nextID = 1
    /\ inflight = [c \in Callers |-> Idle]
    /\ lastCall = NoServiceCall
    /\ lastErr = Nil
    /\ calls = <<>>
    /\ pending = [c \in Callers |-> NoCall]
    /\ opCall = NoCall
    /\ opResult = NoResult
    /\ expiry = NoExpiry
    /\ templates = EmptyTemplateRepo.store
    /\ typeIndex = EmptyTemplateRepo.index
    /\ deliveries = NoDeliveries
    /\ consumer = NewConsumer
    /\ http = NoExchange
    /\ startup = NotStarted

CurrentRepo ==
    [store |-> store, index |-> index, expiry |-> expiry,
     templateIDs |-> DOMAIN templates]

CurrentTemplateRepo ==
    [store |-> templates, index |-> typeIndex,
     referenced |-> {store[i].templateId : i \in DOMAIN store}]

\* a caller without a service call in progress: the first of them
IdleCallers == {c \in Callers : inflight[c].op = "none"}
FreeCaller == CHOOSE c \in IdleCallers : \A d \in IdleCallers : c <= d

\* the frame holds a notification
Holds(fr) == fr.op = "SendNotification" \/ fr.created

\* caller c's call has made the collaborator call that leads to r = [repo,
\* fr]: the repository is as the call left it, the other calls in progress
\* note a change to their notification's record, and a call that has
\* returned is reported
Advance(c, r) ==
    LET changed == {id \in DOMAIN store \cup DOMAIN r.repo.store :
                       \/ (id \in DOMAIN store) # (id \in DOMAIN r.repo.store)
                       \/ id \in DOMAIN store /\ store[id] # r.repo.store[id]}
    IN  /\ store' = r.repo.store
        /\ index' = r.repo.index
        /\ expiry' = r.repo.expiry
        /\ inflight' =
              [k \in Callers |->
                  IF k = c THEN (IF r.fr.pc = "done" THEN Idle ELSE r.fr)
                  ELSE IF Holds(inflight[k]) /\ inflight[k].n.id \in changed
                  THEN [inflight[k] EXCEPT !.overlapped = TRUE]
                  ELSE inflight[k]]
        /\ lastCall' = IF r.fr.pc # "done" THEN NoServiceCall
                       ELSE [op |-> r.fr.op, n |-> r.fr.arg, eventType |-> r.fr.eventType,
                             payload |-> r.fr.payload, overlapped |-> r.fr.overlapped]
        /\ lastErr' = IF r.fr.pc = "done" THEN r.fr.err ELSE Nil
        /\ calls' = IF r.fr.pc = "done" THEN r.fr.calls ELSE <<>>

\* a client posts a request: the handler builds the notification and calls
\* SendNotification, which calls repo.Save
SendNew ==
    /\ nextID <= MaxIDs
    /\ IdleCallers # {}
    /\ \E req \in Requests, o \in StepOutcomes("save") :
          Advance(FreeCaller,
                  SendNotification(backend, CurrentRepo,
                      SendNotificationCall(RequestNotification(req, nextID, now)), o, now))
    /\ nextID' = nextID + 1
    /\ UNCHANGED <<backend, now, directVars, templateVars, deliveries, consumer, http, startup>>

\* a caller reads a stored notification to send it again, counting the
\* attempt with IncrementRetryCount or not, and calls SendNotification
Resend ==
    /\ IdleCallers # {}
    /\ \E id \in DOMAIN store, counted \in BOOLEAN :
          /\ counted => store[id].retryCount < MaxRetries
          /\ inflight' = [inflight EXCEPT ![FreeCaller] =
                SendNotificationCall(IF counted THEN IncrementRetryCount(store[id], now)
                                     ELSE store[id])]
    /\ lastCall' = NoServiceCall
    /\ lastErr' = Nil
    /\ calls' = <<>>
    /\ UNCHANGED <<backend, now, nextID, repoVars, directVars, templateVars, deliveries, consumer, http, startup>>

\* the messages of the stream: an event type and a payload
Events == [eventType : EventTypes, payload : Payloads]
\* nothing has been created and no call is in progress
Quiet == nextID = 1 /\ IdleCallers = Callers
\* the messages delivered once a notification exists or a call is in
\* progress: one without a handler, and one that is handled
LaterEvents ==
    {[eventType |-> "bogus.event", payload |-> NoPayload],
     [eventType |-> "user.registered",
      payload |-> [wellFormed |-> TRUE, userId |-> Str("u1"), email |-> Str("a@x")]]}

\* the stream consumer delivers one message to HandleUserEvent, which
\* decodes it and calls the template engine
Event ==
    /\ IdleCallers # {}
    /\ \E ev \in (IF Quiet THEN Events ELSE LaterEvents), o \in StepOutcomes("start") :
          LET eventType == ev.eventType
              payload == ev.payload
              r == HandleUserEvent(backend, CurrentRepo,
                       HandleUserEventCall(eventType, payload), o, nextID, now)
          IN  /\ r.fr.created => nextID <= MaxIDs
              /\ Advance(FreeCaller, r)
              /\ nextID' = IF r.fr.created THEN nextID + 1 ELSE nextID
    /\ UNCHANGED <<backend, now, directVars, templateVars, deliveries, consumer, http, startup>>

\* the collaborator a call in progress waits for answers, and the call goes
\* on to its next collaborator call or returns
Continue ==
    /\ \E c \in Callers \ IdleCallers : \E o \in StepOutcomes(inflight[c].pc) :
          Advance(c, ServiceStep(backend, CurrentRepo, inflight[c], o, nextID, now))
    /\ UNCHANGED <<backend, now, nextID, directVars, templateVars, deliveries, consumer, http, startup>>

\* the rows of the templates table notifications refer to: the template of
\* the requests, and one with the zero uuid the event handlers put in
ReferencedTemplate(id) ==
    NewTemplate("welcome.html", WelcomeEmail, "Welcome", <<Lit("Hello")>>, id, 0)

\* the administrative path inserts a template row
SaveTemplateRow ==
    /\ backend = Postgres
    /\ \E id \in {UUIDNil, TemplateRef} \ DOMAIN templates :
          templates' = PostgresTemplateSave(CurrentTemplateRepo, ReferencedTemplate(id),
                                            TRUE).repo.store
    /\ lastCall' = NoServiceCall
    /\ lastErr' = Nil
    /\ calls' = <<>>
    /\ http' = NoExchange
    /\ UNCHANGED <<backend, now, nextID, repoVars, inflight, directVars, typeIndex, deliveries, consumer, startup>>

Next == SendNew \/ Resend \/ Event \/ Continue \/ SaveTemplateRow

Spec == Init /\ [][Next]_vars

(***************************************************************************)
(* The domain model called directly: Notification.Validate on              *)
(* notifications as any caller may have filled them in.                    *)
(***************************************************************************)
ValidateRecipients == {"", "a@x", "b@x"}
ValidateTemplateIDs == {UUIDNil, TemplateRef}
ValidateTemplateTypes == {"", EmailTemplate, "sms"}
ValidateInputs ==
    {NewNotification(r, ty, tt, tid, NilMap, 1, 0) :
        r \in ValidateRecipients, ty \in NotificationTypes,
        tid \in ValidateTemplateIDs, tt \in ValidateTemplateTypes}

\* n.Validate()
ValidateOp ==
    /\ \E n \in ValidateInputs :
          /\ opCall' = [NoCall EXCEPT !.op = "Validate", !.n = n]
          /\ opResult' = [err |-> Validate(n), found |-> <<>>]
    /\ UNCHANGED <<backend, now, nextID, repoVars, serviceVars, pending, templateVars, deliveries, consumer, http, startup>>

NextValidate == ValidateOp

SpecValidate == Init /\ [][NextValidate]_vars

(***************************************************************************)
(* The repository called directly by two callers at the same time: the     *)
(* operations of one backend in any order, on notifications, ids and       *)
(* recipients any caller may pass.  An action is one round trip of one     *)
(* call.                                                                   *)
(***************************************************************************)
RepoIDs == {1, 2}
RepoRecipients == {"a@x", "b@x"}
\* a recipient nothing is ever saved for
Stranger == "c@x"
\* creation instants: within one microsecond, within one second, a second
\* apart
CreatedAts == {0, 1, TicksPerMicrosecond + 1, TicksPerSecond}
Limits == {0, 1, 2}
Offsets == {0, 1}

\* the instant the first notification is created at: a microsecond into a
\* second
FirstAt == TicksPerMicrosecond

\* the fixture of the repository tests: createTestNotification(recipient)
RepoNotification(id, r, c) ==
    NewNotification(r, EmailNotification, EmailTemplate, TemplateRef,
                    GoMap([k \in {"testKey"} |-> "testValue"]), id, c)

\* what the update test changes before it calls Update
Updated(n) == [n EXCEPT !.status = StatusSent, !.subject = "Updated Subject"]

\* what callers hand to Save and Update: the first id at one instant for
\* either recipient, updated, and with an empty and a filled map; the second
\* id at each instant
RepoNotifications ==
    {RepoNotification(1, r, FirstAt) : r \in RepoRecipients}
      \cup {Updated(RepoNotification(1, "a@x", FirstAt))}
      \cup {[RepoNotification(1, "a@x", FirstAt) EXCEPT
                !.templateData = GoMap(EmptyKV),
                !.metadata = GoMap([k \in {"key"} |-> "value"])]}
      \cup {RepoNotification(2, "a@x", c) : c \in CreatedAts}

\* the second caller works on the first id
OtherNotifications ==
    {RepoNotification(1, "a@x", FirstAt), Updated(RepoNotification(1, "a@x", FirstAt))}
OtherIDs == {1}

\* the outcomes of the backend's I/O: it can fail on the first of the inputs
WriteOutcomes(n) ==
    IF n \in {RepoNotification(1, "a@x", FirstAt), RepoNotification(2, "a@x", 0)}
    THEN BOOLEAN ELSE {TRUE}
LookupOutcomes(idStr) == IF idStr = 1 THEN BOOLEAN ELSE {TRUE}
QueryOutcomes(r, limit, offset) ==
    IF r = "a@x" /\ limit = 1 /\ offset = 0 THEN BOOLEAN ELSE {TRUE}
\* the outcomes awaited by the next round trip of a call in progress
NextOutcomes(rc) ==
    CASE rc.op = "Update" -> IF rc.id = 1 /\ rc.during = {} THEN BOOLEAN ELSE {TRUE}
      [] rc.op = "Delete" -> LookupOutcomes(rc.id)
      [] OTHER -> QueryOutcomes(rc.recipient, rc.limit, rc.offset)

\* callers without a direct call in progress.  The first caller makes a
\* call when no call is in progress, the second one while a call of the
\* first is
IdleSlots == {c \in Callers : pending[c].op = "none"}
CanCall == IdleSlots = Callers \/ IdleSlots = {2}
FreeSlot == IF 1 \in IdleSlots THEN 1 ELSE 2

\* the frame after a round trip that leads to position pc
After(rc, pc, ioOk) == [rc EXCEPT !.pc = pc, !.ioOk = @ /\ ioOk]

\* the next round trip of the notification repository call in frame rc: the
\* possible [rc, repo, res]
RepoStep(b, repo, rc, ioOk, t) ==
    CASE rc.op = "Save" ->
            LET r == RepoSave(b, repo, rc.n, ioOk, t)
            IN  {[rc |-> After(rc, "done", ioOk), repo |-> r.repo,
                  res |-> [err |-> r.err, found |-> <<>>]]}
      [] rc.op = "Update" ->
            LET r == RepoUpdate(b, repo, rc.n, rc.pc, ioOk, t)
            IN  {[rc |-> After(rc, r.pc, ioOk), repo |-> r.repo,
                  res |-> [err |-> r.err, found |-> <<>>]]}
      [] rc.op = "Delete" ->
            LET r == RepoDelete(b, repo, rc.id, rc.pc, rc.seen, ioOk)
            IN  {[rc |-> [After(rc, r.pc, ioOk) EXCEPT !.seen = r.seen], repo |-> r.repo,
                  res |-> [err |-> r.err, found |-> <<>>]]}
      [] rc.op = "FindByID" ->
            {[rc |-> After(rc, "done", ioOk), repo |-> repo,
              res |-> RepoFindByID(b, repo, rc.id, ioOk)]}
      [] rc.op = "FindByRecipient" ->
            {[rc |-> [After(rc, r.pc, ioOk) EXCEPT !.ids = r.ids], repo |-> repo,
              res |-> [err |-> r.err, found |-> r.found]] :
                r \in RepoFindByRecipient(b, repo, rc.recipient, rc.limit, rc.offset,
                                          rc.pc, rc.ids, ioOk)}

\* a call made with no other caller at work and no I/O failure, from its
\* first round trip to its return (there are at most two): the possible
\* [rc, repo, res]
RunAlone(b, repo, rc, t) ==
    UNION {IF x.rc.pc = "done" THEN {x} ELSE RepoStep(b, x.repo, x.rc, TRUE, t) :
              x \in RepoStep(b, repo, [rc EXCEPT !.pc = "start"], TRUE, t)}

\* the ids whose record or index entry differs between two repositories
Changed(before, after) ==
    {id \in DOMAIN before.store \cup DOMAIN after.store :
        \/ (id \in DOMAIN before.store) # (id \in DOMAIN after.store)
        \/ id \in DOMAIN before.store /\ before.store[id] # after.store[id]}
      \cup {e.member : e \in (before.index \ after.index) \cup (after.index \ before.index)}

\* a change of these ids happens while the call in frame rc is in progress
Concerns(rc, changed) ==
    IF rc.op \in {"FindByRecipient", "Template.FindByType", "Template.FindActiveByType"}
    THEN changed # {}
    ELSE rc.id \in changed

\* the calls in progress after caller c's call has become rc and op has
\* changed these ids
Noted(c, rc, op, changed) ==
    [k \in Callers |->
        IF k = c THEN (IF rc.pc = "done" THEN NoCall ELSE rc)
        ELSE IF pending[k].op # "none" /\ Concerns(pending[k], changed)
        THEN [pending[k] EXCEPT !.during = @ \cup {op}]
        ELSE pending[k]]

\* caller c's call has made the round trip that leads to r = [rc, repo,
\* res]: the repository is as the round trip left it, the other calls in
\* progress note what it changed, and a call that has returned is reported
Perform(c, r) ==
    /\ store' = r.repo.store
    /\ index' = r.repo.index
    /\ expiry' = r.repo.expiry
    /\ pending' = Noted(c, r.rc, r.rc.op, Changed(CurrentRepo, r.repo))
    /\ opCall' = IF r.rc.pc = "done" THEN r.rc ELSE NoCall
    /\ opResult' = IF r.rc.pc = "done" THEN r.res ELSE NoResult

\* a call is made: its first round trip
Call(rc, ioOk) ==
    \E r \in RepoStep(backend, CurrentRepo, [rc EXCEPT !.pc = "start"], ioOk, now) :
        Perform(FreeSlot, r)

\* repo.Save(ctx, n)
SaveOp ==
    /\ CanCall
    /\ \E n \in (IF FreeSlot = 1 THEN RepoNotifications ELSE OtherNotifications) :
       \E ioOk \in (IF FreeSlot = 1 THEN WriteOutcomes(n) ELSE {TRUE}) :
          Call([NoCall EXCEPT !.op = "Save", !.n = n, !.id = n.id], ioOk)
    /\ UNCHANGED <<backend, now, nextID, serviceVars, templateVars, deliveries, consumer, http, startup>>

\* repo.Update(ctx, n)
UpdateOp ==
    /\ CanCall
    /\ \E n \in (IF FreeSlot = 1 THEN RepoNotifications ELSE OtherNotifications) :
       \E ioOk \in (IF FreeSlot = 1 THEN WriteOutcomes(n) ELSE {TRUE}) :
          Call([NoCall EXCEPT !.op = "Update", !.n = n, !.id = n.id], ioOk)
    /\ UNCHANGED <<backend, now, nextID, serviceVars, templateVars, deliveries, consumer, http, startup>>

\* repo.DeleteByID(ctx, id) resp. repo.Delete(ctx, id)
DeleteOp ==
    /\ CanCall
    /\ \E id \in (IF FreeSlot = 1 THEN RepoIDs ELSE OtherIDs) :
       \E ioOk \in (IF FreeSlot = 1 THEN LookupOutcomes(id) ELSE {TRUE}) :
          Call([NoCall EXCEPT !.op = "Delete", !.id = id], ioOk)
    /\ UNCHANGED <<backend, now, nextID, serviceVars, templateVars, deliveries, consumer, http, startup>>

\* repo.FindByID(ctx, id)
FindByIDOp ==
    /\ IdleSlots = Callers
    /\ \E idStr \in RepoIDs \cup {NotAUUID} : \E ioOk \in LookupOutcomes(idStr) :
          Call([NoCall EXCEPT !.op = "FindByID", !.id = idStr], ioOk)
    /\ UNCHANGED <<backend, now, nextID, serviceVars, templateVars, deliveries, consumer, http, startup>>

\* repo.FindByRecipient(ctx, recipient, limit, offset)
FindByRecipientOp ==
    /\ IdleSlots = Callers
    /\ \E r \in RepoRecipients \cup {Stranger}, limit \in Limits, offset \in Offsets :
        \E ioOk \in QueryOutcomes(r, limit, offset) :
          Call([NoCall EXCEPT !.op = "FindByRecipient", !.recipient = r,
                              !.limit = limit, !.offset = offset], ioOk)
    /\ UNCHANGED <<backend, now, nextID, serviceVars, templateVars, deliveries, consumer, http, startup>>

\* the backend answers a call in progress, which makes its next round trip
ContinueOp ==
    /\ \E c \in Callers \ IdleSlots : \E ioOk \in NextOutcomes(pending[c]) :
       \E r \in RepoStep(backend, CurrentRepo, pending[c], ioOk, now) :
          Perform(c, r)
    /\ UNCHANGED <<backend, now, nextID, serviceVars, templateVars, deliveries, consumer, http, startup>>

\* the administrative path inserts the template row the notifications
\* refer to, or deletes it
TemplateRowOp ==
    /\ backend = Postgres
    /\ IdleSlots = Callers
    /\ LET row == ReferencedTemplate(TemplateRef)
           r == IF TemplateRef \in DOMAIN templates
                THEN PostgresTemplateDelete(CurrentTemplateRepo, TemplateRef, TRUE)
                ELSE PostgresTemplateSave(CurrentTemplateRepo, row, TRUE)
       IN  /\ templates' = r.repo.store
           /\ opCall' = [NoCall EXCEPT
                            !.op = IF TemplateRef \in DOMAIN templates
                                   THEN "Template.Delete" ELSE "Template.Save",
                            !.template = row, !.id = TemplateRef]
           /\ opResult' = [err |-> r.err, found |-> <<>>]
    /\ UNCHANGED <<backend, now, nextID, repoVars, serviceVars, pending, typeIndex, deliveries, consumer, http, startup>>

NextRepo ==
    \/ SaveOp \/ UpdateOp \/ DeleteOp \/ FindByIDOp \/ FindByRecipientOp
    \/ ContinueOp \/ TemplateRowOp

SpecRepo == Init /\ [][NextRepo]_vars

(***************************************************************************)
(* Retention in the cache-oriented backend: the keys Save and Update write *)
(* carry a time to live, and the server drops a key when it has elapsed,   *)
(* also between two round trips of a call.                                 *)
(***************************************************************************)
\* the clock advances in steps of ten days, at most MaxClockSteps times
ClockStep == 10 * Day
MaxClockSteps == 6

\* what callers save and update while time passes: both ids for one recipient
RetentionNotifications == {RepoNotification(id, "a@x", 0) : id \in RepoIDs}

\* repo.Save(ctx, n) at time now
SaveAt ==
    /\ backend = Redis
    /\ CanCall
    /\ \E n \in {m \in RetentionNotifications : FreeSlot = 1 \/ m.id \in OtherIDs} :
          Call([NoCall EXCEPT !.op = "Save", !.n = n, !.id = n.id], TRUE)
    /\ UNCHANGED <<backend, now, nextID, serviceVars, templateVars, deliveries, consumer, http, startup>>

\* repo.Update(ctx, n) at time now
UpdateAt ==
    /\ backend = Redis
    /\ CanCall
    /\ \E n \in {m \in RetentionNotifications : FreeSlot = 1 \/ m.id \in OtherIDs} :
          Call([NoCall EXCEPT !.op = "Update", !.n = n, !.id = n.id], TRUE)
    /\ UNCHANGED <<backend, now, nextID, serviceVars, templateVars, deliveries, consumer, http, startup>>

\* repo.DeleteByID(ctx, id) at time now
DeleteAt ==
    /\ backend = Redis
    /\ CanCall
    /\ \E id \in (IF FreeSlot = 1 THEN RepoIDs ELSE OtherIDs) :
          Call([NoCall EXCEPT !.op = "Delete", !.id = id], TRUE)
    /\ UNCHANGED <<backend, now, nextID, serviceVars, templateVars, deliveries, consumer, http, startup>>

\* the server answers a call in progress, at time now
ContinueAt ==
    /\ \E c \in Callers \ IdleSlots :
       \E r \in RepoStep(backend, CurrentRepo, pending[c], TRUE, now) :
          Perform(c, r)
    /\ UNCHANGED <<backend, now, nextID, serviceVars, templateVars, deliveries, consumer, http, startup>>

\* ten days pass: the keys whose time to live has elapsed are gone, and the
\* calls in progress on them note it
Tick ==
    /\ backend = Redis
    /\ now \div ClockStep < MaxClockSteps
    /\ now' = now + ClockStep
    /\ LET repo == Expire(CurrentRepo, now')
       IN  /\ store' = repo.store
           /\ index' = repo.index
           /\ expiry' = repo.expiry
           /\ pending' = Noted(0, NoCall, "Expire", Changed(CurrentRepo, repo))
    /\ opCall' = NoCall
    /\ opResult' = NoResult
    /\ UNCHANGED <<backend, nextID, serviceVars, templateVars, deliveries, consumer, http, startup>>

NextRetention == SaveAt \/ UpdateAt \/ DeleteAt \/ ContinueAt \/ Tick

SpecRetention == Init /\ [][NextRetention]_vars

(***************************************************************************)
(* The template repository called directly by two callers at the same      *)
(* time: the operations of one backend in any order.  An action is one     *)
(* round trip of one call.                                                 *)
(***************************************************************************)
MaxVersion == 3

TemplateIDs == {1, 2}
TemplateTypes == {WelcomeEmail, PasswordReset}
WelcomeName == "welcome.html"
\* a name no template is ever saved with
MissingName == "missing.html"
\* the versions a caller may hand in
CallerVersions == 1..(MaxVersion - 1)
TemplateContent(id) ==
    <<Lit(IF id = 1 THEN "Hello " ELSE "Dear "), Placeholder("FirstName")>>
\* the data a caller renders a template with
RenderData == [k \in {"FirstName"} |-> "Ann"]

TemplateInput(id, ty, a, v) ==
    [NewTemplate(WelcomeName, ty, "Welcome", TemplateContent(id), id, 0)
        EXCEPT !.isActive = a, !.version = v]

\* what callers hand to Save and Update: the first id active, of either type
\* and in each version; the second id of one type, active or not
TemplateInputs ==
    {TemplateInput(1, ty, TRUE, v) : ty \in TemplateTypes, v \in CallerVersions}
      \cup {TemplateInput(2, WelcomeEmail, a, 1) : a \in BOOLEAN}

\* the second caller works on the first id
OtherTemplates == {TemplateInput(1, WelcomeEmail, TRUE, 1)}

\* a caller changes a template it has read from the repository
ReadAndModified ==
    {[templates[id] EXCEPT !.isActive = ~@] :
        id \in {i \in DOMAIN templates : templates[i].version < MaxVersion}}

\* the outcomes of the backend's I/O: it can fail where the first id or the
\* first type is concerned
TemplateOutcomes(id) == IF id = 1 THEN BOOLEAN ELSE {TRUE}
ListingOutcomes(ty) == IF ty = WelcomeEmail THEN BOOLEAN ELSE {TRUE}
\* the outcomes awaited by the next round trip of a call in progress
TemplateNextOutcomes(rc) ==
    IF rc.op = "Template.Delete" THEN TemplateOutcomes(rc.id)
    ELSE TemplateOutcomes(Head(rc.ids))

\* the next round trip of the template repository call in frame rc: the
\* possible [rc, repo, res]
TemplateStep(b, repo, rc, ioOk, t) ==
    CASE rc.op = "Template.Save" ->
            LET r == TemplateSave(b, repo, rc.template, ioOk)
            IN  {[rc |-> After(rc, "done", ioOk), repo |-> r.repo,
                  res |-> [err |-> r.err, found |-> <<>>]]}
      [] rc.op = "Template.Update" ->
            LET r == TemplateUpdate(b, repo, rc.template, ioOk, t)
            IN  {[rc |-> After(rc, "done", ioOk), repo |-> r.repo,
                  res |-> [err |-> r.err, found |-> <<>>]]}
      [] rc.op = "Template.Delete" ->
            LET r == TemplateDelete(b, repo, rc.id, rc.pc, rc.seen, ioOk)
            IN  {[rc |-> [After(rc, r.pc, ioOk) EXCEPT !.seen = r.seen], repo |-> r.repo,
                  res |-> [err |-> r.err, found |-> <<>>]]}
      [] rc.op = "Template.FindByID" ->
            {[rc |-> After(rc, "done", ioOk), repo |-> repo,
              res |-> TemplateFindByID(b, repo, rc.id, ioOk)]}
      [] rc.op = "Template.FindByType" ->
            {[rc |-> [After(rc, r.pc, ioOk) EXCEPT !.ids = r.ids, !.found = r.found],
              repo |-> repo, res |-> [err |-> r.err, found |-> r.found]] :
                r \in TemplateFindByType(b, repo, rc.type, rc.pc, rc.ids, rc.found, ioOk)}
      [] rc.op = "Template.FindActiveByType" ->
            {[rc |-> [After(rc, r.pc, ioOk) EXCEPT !.ids = r.ids, !.found = r.found],
              repo |-> repo, res |-> [err |-> r.err, found |-> r.found]] :
                r \in TemplateFindActiveByType(b, repo, rc.type, rc.pc, rc.ids, rc.found, ioOk)}

\* a template call made with no other caller at work and no I/O failure,
\* from its first round trip on until it returns: the possible [rc, repo, res]
RECURSIVE TemplateRun(_, _, _, _)
TemplateRun(b, repo, rc, t) ==
    UNION {IF x.rc.pc = "done" THEN {x} ELSE TemplateRun(b, x.repo, x.rc, t) :
              x \in TemplateStep(b, repo, rc, TRUE, t)}

\* caller c's call has made the round trip that leads to r = [rc, repo,
\* res]: the repository is as the round trip left it, the other calls in
\* progress note what it changed, and a call that has returned is reported
PerformTemplate(c, r) ==
    /\ templates' = r.repo.store
    /\ typeIndex' = r.repo.index
    /\ pending' = Noted(c, r.rc, r.rc.op, Changed(CurrentTemplateRepo, r.repo))
    /\ opCall' = IF r.rc.pc = "done" THEN r.rc ELSE NoCall
    /\ opResult' = IF r.rc.pc = "done" THEN r.res ELSE NoResult

\* a call is made: its first round trip
TemplateCall(rc, ioOk) ==
    \E r \in TemplateStep(backend, CurrentTemplateRepo, [rc EXCEPT !.pc = "start"], ioOk, now) :
        PerformTemplate(FreeSlot, r)

\* templateRepo.Save(ctx, template)
TemplateSaveOp ==
    /\ CanCall
    /\ \E t \in (IF FreeSlot = 1 THEN TemplateInputs ELSE OtherTemplates) :
       \E ioOk \in (IF FreeSlot = 1 THEN TemplateOutcomes(t.id) ELSE {TRUE}) :
          TemplateCall([NoCall EXCEPT !.op = "Template.Save", !.template = t, !.id = t.id], ioOk)
    /\ UNCHANGED <<backend, now, nextID, repoVars, serviceVars, deliveries, consumer, http, startup>>

\* templateRepo.Update(ctx, template)
TemplateUpdateOp ==
    /\ CanCall
    /\ \E t \in (IF FreeSlot = 1 THEN TemplateInputs \cup ReadAndModified ELSE OtherTemplates) :
       \E ioOk \in (IF FreeSlot = 1 THEN TemplateOutcomes(t.id) ELSE {TRUE}) :
          TemplateCall([NoCall EXCEPT !.op = "Template.Update", !.template = t, !.id = t.id], ioOk)
    /\ UNCHANGED <<backend, now, nextID, repoVars, serviceVars, deliveries, consumer, http, startup>>

\* templateRepo.Delete(ctx, id)
TemplateDeleteOp ==
    /\ CanCall
    /\ \E id \in (IF FreeSlot = 1 THEN TemplateIDs ELSE OtherIDs) :
       \E ioOk \in (IF FreeSlot = 1 THEN TemplateOutcomes(id) ELSE {TRUE}) :
          TemplateCall([NoCall EXCEPT !.op = "Template.Delete", !.id = id], ioOk)
    /\ UNCHANGED <<backend, now, nextID, repoVars, serviceVars, deliveries, consumer, http, startup>>

\* templateRepo.FindByID(ctx, id)
TemplateFindByIDOp ==
    /\ IdleSlots = Callers
    /\ \E id \in TemplateIDs : \E ioOk \in TemplateOutcomes(id) :
          TemplateCall([NoCall EXCEPT !.op = "Template.FindByID", !.id = id], ioOk)
    /\ UNCHANGED <<backend, now, nextID, repoVars, serviceVars, deliveries, consumer, http, startup>>

\* templateRepo.FindByType(ctx, templateType)
TemplateFindByTypeOp ==
    /\ IdleSlots = Callers
    /\ \E ty \in TemplateTypes : \E ioOk \in ListingOutcomes(ty) :
          TemplateCall([NoCall EXCEPT !.op = "Template.FindByType", !.type = ty], ioOk)
    /\ UNCHANGED <<backend, now, nextID, repoVars, serviceVars, deliveries, consumer, http, startup>>

\* templateRepo.FindActiveByType(ctx, templateType)
TemplateFindActiveByTypeOp ==
    /\ IdleSlots = Callers
    /\ \E ty \in TemplateTypes : \E ioOk \in ListingOutcomes(ty) :
          TemplateCall([NoCall EXCEPT !.op = "Template.FindActiveByType", !.type = ty], ioOk)
    /\ UNCHANGED <<backend, now, nextID, repoVars, serviceVars, deliveries, consumer, http, startup>>

\* the backend answers a template call in progress, which makes its next
\* round trip
ContinueTemplateOp ==
    /\ \E c \in Callers \ IdleSlots : \E ioOk \in TemplateNextOutcomes(pending[c]) :
       \E r \in TemplateStep(backend, CurrentTemplateRepo, pending[c], ioOk, now) :
          PerformTemplate(c, r)
    /\ UNCHANGED <<backend, now, nextID, repoVars, serviceVars, deliveries, consumer, http, startup>>

\* templateEngine.ProcessTemplate(ctx, templateName, data): the engine is the
\* relational template repository, and the call is one query
ProcessTemplateOp ==
    /\ backend = Postgres
    /\ IdleSlots = Callers
    /\ \E name \in {WelcomeName, MissingName} :
          \E r \in PostgresProcessTemplate(CurrentTemplateRepo, name, RenderData, TRUE) :
              /\ opCall' = [NoCall EXCEPT !.op = "ProcessTemplate", !.name = name]
              /\ opResult' = r
    /\ UNCHANGED <<backend, now, nextID, repoVars, serviceVars, pending, templateVars, deliveries, consumer, http, startup>>

NextTemplates ==
    \/ TemplateSaveOp \/ TemplateUpdateOp \/ TemplateDeleteOp \/ TemplateFindByIDOp
    \/ TemplateFindByTypeOp \/ TemplateFindActiveByTypeOp \/ ContinueTemplateOp
    \/ ProcessTemplateOp

SpecTemplates == Init /\ [][NextTemplates]_vars

(***************************************************************************)
(* At-least-once delivery: the broker hands the same user.registered event *)
(* to HandleUserEvent again and again, also while an earlier handling of   *)
(* it is in progress.                                                      *)
(***************************************************************************)
MaxDeliveries == 3

\* the event that is redelivered
RedeliveredPayload == [wellFormed |-> TRUE, userId |-> Str("u1"), email |-> Str("a@x")]

\* render, store and provider all succeeded in the handling that returned
\* with frame fr
AllSucceed(fr) ==
    /\ fr.err = Nil
    /\ \A i \in 1..Len(fr.calls) : fr.calls[i].err = Nil

ProviderCallsIn(cs) == Cardinality({i \in 1..Len(cs) : cs[i].op \in ProviderOps})

\* the deliveries after a step of a handling that leads to r = [repo, fr]
Handled(r) ==
    IF r.fr.pc # "done" THEN deliveries
    ELSE [handled |-> deliveries.handled + 1,
          allOk |-> deliveries.allOk /\ AllSucceed(r.fr),
          providerCalls |-> deliveries.providerCalls + ProviderCallsIn(r.fr.calls)]

\* HandleUserEvent(ctx, "user.registered", payload) for the same payload: it
\* decodes the payload and calls the template engine
Redeliver ==
    /\ IdleCallers # {}
    /\ deliveries.handled + Cardinality(Callers \ IdleCallers) < MaxDeliveries
    /\ \E o \in StepOutcomes("start") :
          LET r == HandleUserEvent(backend, CurrentRepo,
                       HandleUserEventCall("user.registered", RedeliveredPayload),
                       o, nextID, now)
          IN  /\ Advance(FreeCaller, r)
              /\ nextID' = IF r.fr.created THEN nextID + 1 ELSE nextID
              /\ deliveries' = Handled(r)
    /\ UNCHANGED <<backend, now, directVars, templateVars, consumer, http, startup>>

\* the collaborator a handling in progress waits for answers
ContinueRedelivery ==
    /\ \E c \in Callers \ IdleCallers : \E o \in StepOutcomes(inflight[c].pc) :
          LET r == ServiceStep(backend, CurrentRepo, inflight[c], o, nextID, now)
          IN  /\ Advance(c, r)
              /\ deliveries' = Handled(r)
    /\ UNCHANGED <<backend, now, nextID, directVars, templateVars, consumer, http, startup>>

NextRedelivery == Redeliver \/ ContinueRedelivery \/ SaveTemplateRow

SpecRedelivery == Init /\ [][NextRedelivery]_vars

(***************************************************************************)
(* The stream consumer: internal/infrastructure/kafka (Consumer).  Every   *)
(* claim of a session runs ConsumeClaim in a goroutine of its own; the     *)
(* notification service behind it is any implementation of the interface.  *)
(***************************************************************************)
MaxMessages == 2

\* message keys: the event type of the message
MessageKeys == {"user.registered", "bogus.event"}

\* what notificationSvc.HandleUserEvent may return for an event type
HandlerResults(eventType) ==
    IF eventType \in KnownEventTypes
    THEN {Nil, Errorf("error saving notification", "io")}
    ELSE {"unknown event type: " \o eventType}

\* Consumer.handleMessage, given what HandleUserEvent returned
handleMessage(err) ==
    IF err # Nil THEN Errorf("error handling user event", err) ELSE Nil

LogEntry(ev, message, err) == [ev |-> ev, offset |-> message.offset, err |-> err]

\* variant: the message is marked as soon as it is received
receive_MarksFirst(cl) ==
    LET message == Head(cl.channel)
    IN  [cl EXCEPT !.channel = Tail(@), !.msg = message, !.pc = "handling",
                   !.log = @ \o <<LogEntry("mark", message, Nil),
                                  LogEntry("call", message, Nil)>>]

\* case message := <-claim.Messages(), up to the call of HandleUserEvent
receive(cl) ==
    LET message == Head(cl.channel)
    IN  [cl EXCEPT !.channel = Tail(@), !.msg = message, !.pc = "handling",
                   !.log = @ \o <<LogEntry("call", message, Nil)>>]

\* variant: ConsumeClaim returns the handler's error instead of logging it
returned_StopsOnError(cl, err) ==
    [cl EXCEPT !.pc = IF err # Nil THEN "returned" ELSE "mark",
               !.log = @ \o <<LogEntry("return", cl.msg, handleMessage(err))>>]

\* HandleUserEvent returns err; handleMessage's error is logged, nothing else
returned(cl, err) ==
    [cl EXCEPT !.pc = "mark",
               !.log = @ \o <<LogEntry("return", cl.msg, handleMessage(err))>>]

\* session.MarkMessage(message, ""), then back to the select
markMessage(cl) ==
    [cl EXCEPT !.pc = "select", !.msg = NoMessage,
               !.log = @ \o <<LogEntry("mark", cl.msg, Nil)>>]

\* the broker delivers the next message of a partition
Deliver(c) ==
    /\ ~consumer.claims[c].closed
    /\ consumer.claims[c].produced < MaxMessages
    /\ \E key \in MessageKeys :
          consumer' = [consumer EXCEPT
              !.claims[c].produced = @ + 1,
              !.claims[c].channel =
                  Append(@, [offset |-> consumer.claims[c].produced + 1, key |-> key])]
    /\ UNCHANGED <<backend, now, nextID, repoVars, serviceVars, directVars, templateVars, deliveries, http, startup>>

\* the session ends: claim.Messages() is closed
CloseClaim(c) ==
    /\ ~consumer.claims[c].closed
    /\ consumer' = [consumer EXCEPT !.claims[c].closed = TRUE]
    /\ UNCHANGED <<backend, now, nextID, repoVars, serviceVars, directVars, templateVars, deliveries, http, startup>>

\* what c.consumer.Close() may return
CloseResults == {Nil, "io"}

\* c.consumer.Close() has returned err: the consumer group is closed, which
\* ends the session and closes claim.Messages() of every claim; Stop returns
\* nil or the wrapped error
closeConsumer(cons, err) ==
    [cons EXCEPT
        !.claims = [c \in Claims |-> [cons.claims[c] EXCEPT !.closed = TRUE]],
        !.stop = "returned",
        !.stopErr = IF err # Nil THEN Errorf("error closing consumer", err) ELSE Nil]

\* Consumer.Stop is called: c.cancel(), then the call of c.consumer.Close()
Stop ==
    /\ consumer.stop = "idle"
    /\ consumer' = [consumer EXCEPT !.ctxDone = TRUE, !.stop = "closing"]
    /\ UNCHANGED <<backend, now, nextID, repoVars, serviceVars, directVars, templateVars, deliveries, http, startup>>

\* Consumer.Stop: c.consumer.Close() returns and Stop with it; the Consume
\* call of a running session returns to the loop of Start's goroutine
StopReturns ==
    /\ consumer.stop = "closing"
    /\ \E err \in CloseResults : consumer' = closeConsumer(consumer, err)
    /\ startup' = IF startup.loop = "session" THEN [startup EXCEPT !.loop = "check"]
                  ELSE startup
    /\ UNCHANGED <<backend, now, nextID, repoVars, serviceVars, directVars, templateVars, deliveries, http>>

\* ConsumeClaim: the select takes a message and calls handleMessage
Receive(c) ==
    /\ consumer.claims[c].pc = "select"
    /\ consumer.claims[c].channel # <<>>
    /\ consumer' = [consumer EXCEPT !.claims[c] = receive(@)]
    /\ UNCHANGED <<backend, now, nextID, repoVars, serviceVars, directVars, templateVars, deliveries, http, startup>>

\* ConsumeClaim: handleMessage returns
HandlerReturns(c) ==
    /\ consumer.claims[c].pc = "handling"
    /\ \E err \in HandlerResults(consumer.claims[c].msg.key) :
          consumer' = [consumer EXCEPT !.claims[c] = returned(@, err)]
    /\ UNCHANGED <<backend, now, nextID, repoVars, serviceVars, directVars, templateVars, deliveries, http, startup>>

\* ConsumeClaim: session.MarkMessage
Mark(c) ==
    /\ consumer.claims[c].pc = "mark"
    /\ consumer' = [consumer EXCEPT !.claims[c] = markMessage(@)]
    /\ UNCHANGED <<backend, now, nextID, repoVars, serviceVars, directVars, templateVars, deliveries, http, startup>>

\* ConsumeClaim returns nil: the select reads nil from the closed channel, or
\* takes <-c.ctx.Done()
ClaimReturns(c) ==
    /\ consumer.claims[c].pc = "select"
    /\ \/ consumer.claims[c].closed /\ consumer.claims[c].channel = <<>>
       \/ consumer.ctxDone
    /\ consumer' = [consumer EXCEPT !.claims[c].pc = "returned"]
    /\ UNCHANGED <<backend, now, nextID, repoVars, serviceVars, directVars, templateVars, deliveries, http, startup>>

NextConsumer ==
    \/ Stop
    \/ StopReturns
    \/ \E c \in Claims :
          \/ Deliver(c) \/ CloseClaim(c) \/ Receive(c)
          \/ HandlerReturns(c) \/ Mark(c) \/ ClaimReturns(c)

SpecConsumer == Init /\ [][NextConsumer]_vars

(***************************************************************************)
(* HTTP API: internal/api/handlers over the adapter and the service.  The  *)
(* server runs each request in a goroutine of its own: a handler blocks in *)
(* the service call it makes, and is a step operator like the call.        *)
(***************************************************************************)
StatusCode ==
    [OK |-> 200, Created |-> 201, BadRequest |-> 400, NotFound |-> 404,
     FailedDependency |-> 424, InternalServerError |-> 500]

DefaultLimit == 10

\* nothing has been written to the response yet
NoResponse == [status |-> 0, error |-> "", body |-> <<>>]

\* writeError(w, err, code)
writeError(err, code) == [status |-> code, error |-> err, body |-> <<>>]

\* NotificationResponse built from a notification
NotificationResponse(n) ==
    [id |-> n.id, recipient |-> n.recipient, type |-> n.type, subject |-> n.subject,
     content |-> n.content, status |-> n.status, metadata |-> OmitEmpty(n.metadata),
     createdAt |-> n.createdAt, updatedAt |-> n.updatedAt]

\* writeResponse(w, data, code), then the handler's reaction when encoding
\* fails: the header is already written, so the later WriteHeader(500) has no
\* effect on the status and only the error message is appended
writeResponse(data, code, encodeOk) ==
    IF encodeOk THEN [status |-> code, error |-> "", body |-> data]
    ELSE [status |-> code, error |-> "Failed to encode response", body |-> <<>>]

\* a request body: not decodable, or a SendNotificationRequest
UndecodableBody == [decodable |-> FALSE, recipient |-> "", type |-> "", templateId |-> UUIDNil]
Body(req) ==
    [decodable |-> TRUE, recipient |-> req.recipient, type |-> req.type,
     templateId |-> req.templateId]

\* the path parameter {id}: empty, or a string
EmptyParam == [empty |-> TRUE, id |-> UUIDNil]
IDParam(id) == [empty |-> FALSE, id |-> id]

\* Service.GetNotification and Service.GetNotificationsByRecipient, behind
\* the adapter
GetNotification(b, repo, id, ioOk) == RepoFindByID(b, repo, id, ioOk)
GetNotificationsByRecipient(b, repo, recipient, limit, offset, pc, ids, ioOk) ==
    RepoFindByRecipient(b, repo, recipient, limit, offset, pc, ids, ioOk)

\* variant: a notification that is not found is reported as a failed dependency
GetNotificationHandler_AbsentIsFailure(b, repo, param, ioOk, encodeOk) ==
    LET res == GetNotification(b, repo, param.id, ioOk)
        called == <<[op |-> "GetNotification", err |-> res.err, found |-> res.found # <<>>]>>
    IN  IF param.empty
        THEN [resp |-> writeError("Notification ID is required", StatusCode.BadRequest),
              serviceCalls |-> <<>>]
        ELSE IF res.err # Nil \/ res.found = <<>>
        THEN [resp |-> writeError("Failed to get notification", StatusCode.FailedDependency),
              serviceCalls |-> called]
        ELSE [resp |-> writeResponse(<<NotificationResponse(res.found[1])>>,
                                     StatusCode.OK, encodeOk),
              serviceCalls |-> called]

\* NotificationHandler.GetNotification: the service call is one round trip
GetNotificationHandler(b, repo, param, ioOk, encodeOk) ==
    LET res == GetNotification(b, repo, param.id, ioOk)
        called == <<[op |-> "GetNotification", err |-> res.err, found |-> res.found # <<>>]>>
    IN  IF param.empty
        THEN [resp |-> writeError("Notification ID is required", StatusCode.BadRequest),
              serviceCalls |-> <<>>]
        ELSE IF res.err # Nil
        THEN [resp |-> writeError("Failed to get notification", StatusCode.FailedDependency),
              serviceCalls |-> called]
        ELSE IF res.found = <<>>
        THEN [resp |-> writeError("Notification not found", StatusCode.NotFound),
              serviceCalls |-> called]
        ELSE [resp |-> writeResponse(<<NotificationResponse(res.found[1])>>,
                                     StatusCode.OK, encodeOk),
              serviceCalls |-> called]

\* variant: the service's error is not looked at
SendNotificationHandler_IgnoresError(b, repo, fr, body, id, t, o, encodeOk) ==
    LET r == SendNotification(b, repo,
                 IF fr.op = "none" THEN SendNotificationCall(RequestNotification(body, id, t))
                 ELSE fr, o, t)
        called == <<[op |-> "SendNotification", err |-> r.fr.err]>>
    IN  IF ~body.decodable
        THEN [resp |-> writeError("Invalid request body", StatusCode.BadRequest),
              repo |-> repo, fr |-> Idle, serviceCalls |-> <<>>]
        ELSE IF r.fr.pc # "done"
        THEN [resp |-> NoResponse, repo |-> r.repo, fr |-> r.fr, serviceCalls |-> <<>>]
        ELSE [resp |-> writeResponse(<<NotificationResponse(r.fr.n)>>,
                                     StatusCode.Created, encodeOk),
              repo |-> r.repo, fr |-> r.fr, serviceCalls |-> called]

\* NotificationHandler.SendNotification, in frame fr (Idle when the request
\* arrives): the body is decoded and the notification built, then every
\* step is the next collaborator call of the service's SendNotification,
\* and the response is written when that has returned
SendNotificationHandler(b, repo, fr, body, id, t, o, encodeOk) ==
    LET r == SendNotification(b, repo,
                 IF fr.op = "none" THEN SendNotificationCall(RequestNotification(body, id, t))
                 ELSE fr, o, t)
        called == <<[op |-> "SendNotification", err |-> r.fr.err]>>
    IN  IF ~body.decodable
        THEN [resp |-> writeError("Invalid request body", StatusCode.BadRequest),
              repo |-> repo, fr |-> Idle, serviceCalls |-> <<>>]
        ELSE IF r.fr.pc # "done"
        THEN [resp |-> NoResponse, repo |-> r.repo, fr |-> r.fr, serviceCalls |-> <<>>]
        ELSE IF r.fr.err # Nil
        THEN [resp |-> writeError("Failed to send notification",
                                  StatusCode.FailedDependency),
              repo |-> r.repo, fr |-> r.fr, serviceCalls |-> called]
        ELSE [resp |-> writeResponse(<<NotificationResponse(r.fr.n)>>,
                                     StatusCode.Created, encodeOk),
              repo |-> r.repo, fr |-> r.fr, serviceCalls |-> called]

\* NotificationHandler.GetNotificationsByRecipient, with the service call in
\* frame rc: the possible outcomes [rc, resp, serviceCalls] of its next
\* round trip
GetNotificationsByRecipientHandler(b, repo, rc, ioOk, encodeOk) ==
    IF rc.recipient = ""
    THEN {[rc |-> [rc EXCEPT !.pc = "done"],
           resp |-> writeError("Recipient is required", StatusCode.BadRequest),
           serviceCalls |-> <<>>]}
    ELSE {LET called == <<[op |-> "GetNotificationsByRecipient", err |-> res.err]>>
              next == [After(rc, res.pc, ioOk) EXCEPT !.ids = res.ids]
          IN  IF res.pc # "done"
              THEN [rc |-> next, resp |-> NoResponse, serviceCalls |-> <<>>]
              ELSE IF res.err # Nil
              THEN [rc |-> next,
                    resp |-> writeError("Failed to get notifications",
                                        StatusCode.FailedDependency),
                    serviceCalls |-> called]
              ELSE [rc |-> next,
                    resp |-> writeResponse(
                                 [i \in 1..Len(res.found) |->
                                     NotificationResponse(res.found[i])],
                                 StatusCode.OK, encodeOk),
                    serviceCalls |-> called] :
            res \in GetNotificationsByRecipient(b, repo, rc.recipient, DefaultLimit, 0,
                                              rc.pc, rc.ids, ioOk)}

\* what clients send
Bodies == {UndecodableBody} \cup {Body(req) : req \in Requests}
Params == {EmptyParam, IDParam(NotAUUID)} \cup {IDParam(id) : id \in 1..(MaxIDs + 1)}
QueryRecipients == {"", "a@x", "c@x"}

Exchange(route, request, r) ==
    [route |-> route, request |-> request, status |-> r.resp.status,
     error |-> r.resp.error, body |-> r.resp.body, serviceCalls |-> r.serviceCalls]

\* the handler of caller c's POST has made the step that leads to r: the
\* service call advances, and the request is answered when it has returned
Posted(c, body, r) ==
    /\ Advance(c, [repo |-> r.repo, fr |-> r.fr])
    /\ pending' = Noted(0, NoCall, "SendNotification", Changed(CurrentRepo, r.repo))
    /\ http' = IF r.fr.pc = "done" THEN Exchange("POST /notifications", body, r)
               ELSE NoExchange

\* the handler of caller c's listing has made the step that leads to r
ListingStep(c, r) ==
    /\ pending' = [pending EXCEPT ![c] = IF r.rc.pc = "done" THEN NoCall ELSE r.rc]
    /\ http' = IF r.rc.pc = "done" THEN Exchange("GET /notifications", r.rc.recipient, r)
               ELSE NoExchange
    /\ lastCall' = NoServiceCall
    /\ lastErr' = Nil
    /\ calls' = <<>>

\* POST /notifications arrives: the handler decodes the body and the service
\* makes its first collaborator call, after which no created response is
\* written yet
PostNotification ==
    /\ IdleCallers # {}
    /\ \E body \in Bodies, o \in StepOutcomes("save") :
          /\ body.decodable => nextID <= MaxIDs
          /\ Posted(FreeCaller, body,
                    SendNotificationHandler(backend, CurrentRepo, Idle, body, nextID, now,
                                            o, TRUE))
          /\ nextID' = IF body.decodable THEN nextID + 1 ELSE nextID
    /\ UNCHANGED <<backend, now, opCall, opResult, templateVars, deliveries, consumer, startup>>

\* the collaborator the service call of a POST waits for answers
ContinuePost ==
    /\ \E c \in Callers \ IdleCallers :
       \E o \in StepOutcomes(inflight[c].pc), encodeOk \in BOOLEAN :
          Posted(c, Body(inflight[c].arg),
                 SendNotificationHandler(backend, CurrentRepo, inflight[c],
                     Body(inflight[c].arg), inflight[c].arg.id, now, o, encodeOk))
    /\ UNCHANGED <<backend, now, nextID, opCall, opResult, templateVars, deliveries, consumer, startup>>

\* GET /notifications/{id}
GetNotificationByID ==
    /\ \E param \in Params, ioOk \in BOOLEAN, encodeOk \in BOOLEAN :
          http' = Exchange("GET /notifications/{id}", param,
                      GetNotificationHandler(backend, CurrentRepo, param, ioOk, encodeOk))
    /\ lastCall' = NoServiceCall
    /\ lastErr' = Nil
    /\ calls' = <<>>
    /\ UNCHANGED <<backend, now, nextID, repoVars, inflight, directVars, templateVars, deliveries, consumer, startup>>

\* GET /notifications?recipient= arrives
ListNotifications ==
    /\ IdleSlots = Callers
    /\ \E recipient \in QueryRecipients, ioOk \in BOOLEAN, encodeOk \in BOOLEAN :
       \E r \in GetNotificationsByRecipientHandler(backend, CurrentRepo,
                    [NoCall EXCEPT !.op = "FindByRecipient", !.pc = "start",
                                   !.recipient = recipient, !.limit = DefaultLimit],
                    ioOk, encodeOk) :
          ListingStep(FreeSlot, r)
    /\ UNCHANGED <<backend, now, nextID, repoVars, inflight, opCall, opResult, templateVars, deliveries, consumer, startup>>

\* the backend answers the service call of a listing
ContinueList ==
    /\ \E c \in Callers \ IdleSlots : \E ioOk \in BOOLEAN, encodeOk \in BOOLEAN :
       \E r \in GetNotificationsByRecipientHandler(backend, CurrentRepo, pending[c],
                                                   ioOk, encodeOk) :
          ListingStep(c, r)
    /\ UNCHANGED <<backend, now, nextID, repoVars, inflight, opCall, opResult, templateVars, deliveries, consumer, startup>>

NextHTTP ==
    \/ PostNotification \/ ContinuePost \/ GetNotificationByID
    \/ ListNotifications \/ ContinueList \/ SaveTemplateRow

SpecHTTP == Init /\ [][NextHTTP]_vars

(***************************************************************************)
(* Consumer.Start: the caller waits on c.ready while the goroutine it      *)
(* spawned calls Consume in a loop and replaces c.ready after each return. *)
(* c.ready is read and written without synchronisation.                    *)
(***************************************************************************)
MaxAttempts == 3

\* Start: wg.Add(1); go func() { ... }()
StartSpawn ==
    /\ startup.main = "idle"
    /\ startup' = [startup EXCEPT !.main = "read", !.loop = "consume"]
    /\ UNCHANGED <<backend, now, nextID, repoVars, serviceVars, directVars, templateVars, deliveries, consumer, http>>

\* Start: the operand of <-c.ready is evaluated.  The read races with the
\* goroutine's assignments: it yields the channel of any of the writes made
\* so far
StartRead ==
    /\ startup.main = "read"
    /\ \E ch \in 0..startup.ready :
          startup' = [startup EXCEPT !.main = "wait", !.held = ch]
    /\ UNCHANGED <<backend, now, nextID, repoVars, serviceVars, directVars, templateVars, deliveries, consumer, http>>

\* Start: the receive from the channel completes once that channel is closed
StartReturn ==
    /\ startup.main = "wait"
    /\ startup.held \in startup.closed
    /\ startup' = [startup EXCEPT !.main = "returned"]
    /\ UNCHANGED <<backend, now, nextID, repoVars, serviceVars, directVars, templateVars, deliveries, consumer, http>>

\* goroutine: Consume returns an error before any session is set up
ConsumeFails ==
    /\ startup.loop = "consume"
    /\ startup.attempts < MaxAttempts
    /\ startup' = [startup EXCEPT !.loop = "check", !.attempts = @ + 1]
    /\ UNCHANGED <<backend, now, nextID, repoVars, serviceVars, directVars, templateVars, deliveries, consumer, http>>

\* goroutine: Consume joins the group, which is not closed, and calls Setup:
\* close(c.ready)
ConsumeSetup ==
    /\ startup.loop = "consume"
    /\ consumer.stop # "returned"
    /\ startup.attempts < MaxAttempts
    /\ startup' = [startup EXCEPT
          !.loop = "session", !.attempts = @ + 1,
          !.closed = @ \cup {startup.ready},
          !.closedTwice = @ \/ startup.ready \in startup.closed]
    /\ UNCHANGED <<backend, now, nextID, repoVars, serviceVars, directVars, templateVars, deliveries, consumer, http>>

\* goroutine: the session ends (rebalance or cancellation), Consume returns
SessionEnds ==
    /\ startup.loop = "session"
    /\ startup' = [startup EXCEPT !.loop = "check"]
    /\ UNCHANGED <<backend, now, nextID, repoVars, serviceVars, directVars, templateVars, deliveries, consumer, http>>

\* goroutine: if c.ctx.Err() != nil { return }; c.ready = make(chan bool)
LoopAgain ==
    /\ startup.loop = "check"
    /\ startup' = IF consumer.ctxDone
                  THEN [startup EXCEPT !.loop = "exited"]
                  ELSE [startup EXCEPT !.loop = "consume", !.ready = @ + 1]
    /\ UNCHANGED <<backend, now, nextID, repoVars, serviceVars, directVars, templateVars, deliveries, consumer, http>>

NextStart ==
    \/ StartSpawn \/ StartRead \/ StartReturn
    \/ ConsumeFails \/ ConsumeSetup \/ SessionEnds \/ LoopAgain
    \/ Stop \/ StopReturns

\* every goroutine that can take a step eventually takes one: the caller of
\* Start, its goroutine, and a caller of Stop that has cancelled the context
SpecStart ==
    /\ Init
    /\ [][NextStart]_vars
    /\ WF_vars(StartSpawn \/ StartRead \/ StartReturn)
    /\ WF_vars(LoopAgain)
    /\ WF_vars(StopReturns)

(***************************************************************************)
(* Vocabulary of the properties: which service call returned in the step   *)
(* into the current state and which collaborator calls it made.            *)
(***************************************************************************)
IsSend == lastCall.op = "SendNotification"
IsEvent == lastCall.op = "HandleUserEvent"
IsKnownEvent == IsEvent /\ lastCall.eventType \in KnownEventTypes
\* no other call changed the stored record of the call's notification while
\* the call was in progress
Undisturbed == ~lastCall.overlapped

CallsOf(ops) == {i \in 1..Len(calls) : calls[i].op \in ops}
SaveSucceeded == \E i \in CallsOf({"Save"}) : calls[i].err = Nil
SaveFailed == \E i \in CallsOf({"Save"}) : calls[i].err # Nil
UpdateSucceeded == \E i \in CallsOf({"Update"}) : calls[i].err = Nil
UpdateFailed == \E i \in CallsOf({"Update"}) : calls[i].err # Nil
ProviderSucceeded == \E i \in CallsOf(ProviderOps) : calls[i].err = Nil
ProviderFailed == \E i \in CallsOf(ProviderOps) : calls[i].err # Nil
RenderFailed == \E i \in CallsOf({"ProcessTemplate"}) : calls[i].err # Nil
\* the notification the pipeline handed to the repository's Save
SavedN == calls[CHOOSE i \in CallsOf({"Save"}) : TRUE].n
SupportedTypes == {EmailNotification, SMSNotification, PushNotification}

(***************************************************************************)
(* Properties of the orchestration service                                 *)
(***************************************************************************)

\* C1: SendNotification of an email, sms or push notification whose Save,
\* provider send and final Update all succeed returns nil and leaves the
\* record stored under the notification's id with status Sent and an empty
\* errorMessage, whatever errorMessage the notification carried before.
C1_SentOnSuccess ==
    (IsSend /\ lastCall.n.type \in SupportedTypes
        /\ SaveSucceeded /\ ProviderSucceeded /\ UpdateSucceeded)
    => /\ lastErr = Nil
       /\ lastCall.n.id \in DOMAIN store
       /\ store[lastCall.n.id].status = StatusSent
       /\ store[lastCall.n.id].errorMessage = ""

\* a previously failed notification is sent again and everything succeeds
C1_Witness ==
    /\ IsSend /\ lastCall.n.type \in SupportedTypes
    /\ lastCall.n.errorMessage # "" /\ lastCall.n.status = StatusFailed
    /\ SaveSucceeded /\ ProviderSucceeded /\ UpdateSucceeded
    /\ store[lastCall.n.id].status = StatusSent

\* C2: in both entry protocols, when the initial Save succeeds and the
\* provider's send returns an error e, the call returns an error and, when
\* the final Update succeeds, the stored record has status Failed and
\* errorMessage equal to e.
C2_FailedOnProviderError ==
    ((IsSend \/ IsKnownEvent) /\ SaveSucceeded /\ ProviderFailed)
    => /\ lastErr # Nil
       /\ UpdateSucceeded =>
            /\ SavedN.id \in DOMAIN store
            /\ store[SavedN.id].status = StatusFailed
            /\ \E i \in CallsOf(ProviderOps) :
                  store[SavedN.id].errorMessage = calls[i].err

\* an event's email is rejected by the provider and the failure is stored
C2_Witness ==
    /\ IsKnownEvent /\ SaveSucceeded /\ ProviderFailed /\ UpdateSucceeded
    /\ store[SavedN.id].status = StatusFailed
    /\ store[SavedN.id].errorMessage \in ProviderErrors

\* C3: SendNotification validates first: a notification for which Validate()
\* returns an error makes SendNotification return an error without any
\* repository Save, repository Update or provider send.
C3_ValidateBeforeAnything ==
    (IsSend /\ Validate(lastCall.n) # Nil)
    => (lastErr # Nil /\ calls = <<>>)

\* C4: in both entry protocols, when the initial Save returns an error the
\* call returns an error, no provider send is made and no Update is
\* attempted.
C4_SaveErrorAborts ==
    ((IsSend \/ IsKnownEvent) /\ SaveFailed)
    => /\ lastErr # Nil
       /\ CallsOf(ProviderOps) = {}
       /\ CallsOf({"Update"}) = {}

\* the Save of a direct send fails
C4_Witness ==
    /\ IsSend /\ SaveFailed /\ lastCall.n.type \in SupportedTypes
    /\ lastErr # Nil /\ Len(calls) = 1

\* C5: once the initial Save has succeeded, SendNotification returns nil
\* exactly when the provider send succeeded, whether the final Update
\* succeeds or fails; when the Update fails after a successful send the
\* caller gets nil and the stored record keeps its pre-dispatch status
\* (the stored record as this call left it: no other call wrote the same
\* id meanwhile).
C5_ResultIsDeliveryOutcome ==
    (IsSend /\ SaveSucceeded)
    => /\ (lastErr = Nil) <=> ProviderSucceeded
       /\ (ProviderSucceeded /\ UpdateFailed) =>
            /\ lastErr = Nil
            /\ Undisturbed =>
                 /\ lastCall.n.id \in DOMAIN store
                 /\ store[lastCall.n.id].status = lastCall.n.status

\* the send succeeds, the final Update fails, the caller still gets nil
C5_Witness ==
    /\ IsSend /\ SaveSucceeded /\ ProviderSucceeded /\ UpdateFailed
    /\ Undisturbed
    /\ lastErr = Nil
    /\ store[lastCall.n.id].status = StatusPending

\* what C6 says of one SendNotification call
DispatchedByType ==
    LET only(op) == Cardinality(CallsOf(ProviderOps)) = 1
                    /\ \A i \in CallsOf(ProviderOps) : calls[i].op = op
    IN  CASE lastCall.n.type = EmailNotification -> only("SendEmail")
          [] lastCall.n.type = SMSNotification -> only("SendSMS")
          [] lastCall.n.type = PushNotification -> only("SendPush")
          [] OTHER -> /\ CallsOf(ProviderOps) = {}
                      /\ lastErr = Errorf("error sending notification",
                             "unsupported notification type: " \o lastCall.n.type)

\* C6 (as stated): every SendNotification call invokes exactly the provider
\* of the notification's type, exactly once; for any other type no provider
\* is invoked and the call returns an unsupported-type error.
C6_DispatchEveryCall == IsSend => DispatchedByType

\* C6 (amended): every SendNotification call whose initial Save succeeds
\* invokes exactly the provider of the notification's type, exactly once;
\* for any other type no provider is invoked and the call returns an
\* unsupported-type error.
C6_DispatchAfterSave == (IsSend /\ SaveSucceeded) => DispatchedByType

\* an sms is handed to the SMS provider, and to no other
C6_Witness ==
    /\ IsSend /\ SaveSucceeded /\ lastCall.n.type = SMSNotification
    /\ \E i \in CallsOf(ProviderOps) : calls[i].op = "SendSMS"

\* C7: HandleUserEvent with an event type other than the four recognized
\* ones returns an unknown-event-type error, makes no template render, no
\* Save, no Update and no provider send, and leaves the store unchanged.
C7_UnknownEventRejected ==
    [][ (lastCall'.op = "HandleUserEvent"
            /\ lastCall'.eventType \notin KnownEventTypes)
        => /\ lastErr' = "unknown event type: " \o lastCall'.eventType
           /\ calls' = <<>>
           /\ store' = store
           /\ index' = index ]_vars

\* an unknown event arrives while a notification is stored
C7_Witness ==
    /\ IsEvent /\ lastCall.eventType = "bogus.event"
    /\ lastErr # Nil /\ calls = <<>>
    /\ DOMAIN store # {}

\* C8: HandleUserEvent("user.registered", payload) with a decodable
\* payload, a successful render, a succeeding repository and a succeeding
\* email provider persists exactly one notification, of type email, whose
\* metadata has eventType = "user.registered" and whose stored status is
\* Sent.
C8_RegisteredPersistsTaggedEmail ==
    (IsEvent /\ lastCall.eventType = "user.registered"
        /\ SaveSucceeded /\ ProviderSucceeded /\ UpdateSucceeded)
    => /\ Cardinality(CallsOf({"Save"})) = 1
       /\ SavedN.id \in DOMAIN store
       /\ store[SavedN.id].type = EmailNotification
       /\ store[SavedN.id].status = StatusSent
       /\ MapHas(store[SavedN.id].metadata, "eventType", "user.registered")

\* C9: for every recognized event type, the notification HandleUserEvent
\* persists and the message it hands to the email provider have recipient
\* equal to the event's email field and content equal to the string the
\* template render returned; the status at the initial Save is Pending.
C9_EventMessageIsRendered ==
    (IsKnownEvent /\ CallsOf({"Save"}) # {})
    => LET email    == Unmarshal(lastCall.payload).Email
           rendered == calls[CHOOSE i \in CallsOf({"ProcessTemplate"}) : TRUE].content
       IN  /\ SavedN.recipient = email
           /\ SavedN.content = rendered
           /\ SavedN.status = StatusPending
           /\ \A i \in CallsOf(ProviderOps) :
                 calls[i].to = email /\ calls[i].content = rendered

\* C10: for every recognized event type, when the payload cannot be decoded
\* or the template render returns an error, HandleUserEvent returns an
\* error and makes no Save, no Update and no provider send; on a decode
\* failure the template engine is not called either.
C10_EarlyFailureTouchesNothing ==
    (IsKnownEvent /\ (Unmarshal(lastCall.payload).err # Nil \/ RenderFailed))
    => /\ lastErr # Nil
       /\ CallsOf({"Save", "Update"} \cup ProviderOps) = {}
       /\ Unmarshal(lastCall.payload).err # Nil => calls = <<>>

\* the render of a recognized event fails
C10_Witness ==
    /\ IsKnownEvent /\ RenderFailed
    /\ Unmarshal(lastCall.payload).err = Nil
    /\ lastErr # Nil /\ Len(calls) = 1

(***************************************************************************)
(* Properties of the domain model and of the stored records                *)
(***************************************************************************)

\* C11: Validate() returns ok if and only if recipient is non-empty, type is
\* non-empty and, when a templateId is set, templateType is non-empty; so a
\* notification with the zero template id, a recipient and a type passes.
C11_ValidateIffTemplatedComplete ==
    opCall.op = "Validate"
    => (opResult.err = Nil
          <=> /\ opCall.n.recipient # ""
              /\ opCall.n.type # ""
              /\ (opCall.n.templateId # UUIDNil => opCall.n.templateType # ""))

\* the statuses the service call that returned handed to the repository, in
\* order
WrittenStatuses ==
    LET w == SelectSeq(calls, LAMBDA c : c.op \in {"Save", "Update"})
    IN  [i \in 1..Len(w) |-> w[i].n.status]

\* the statuses one call hands to the repository: never Cancelled, and for a
\* notification that enters as Pending, Pending and then at most one of Sent
\* or Failed; no stored record is Cancelled
WritesFollowStateMachine ==
    /\ \A i \in 1..Len(WrittenStatuses) : WrittenStatuses[i] # StatusCancelled
    /\ (WrittenStatuses # <<>> /\ WrittenStatuses[1] = StatusPending)
          => WrittenStatuses \in {<<StatusPending>>,
                                  <<StatusPending, StatusSent>>,
                                  <<StatusPending, StatusFailed>>}
    /\ \A id \in DOMAIN store : store[id].status # StatusCancelled

\* the cache-oriented backend is about to take the Save of a call in
\* progress whose Pending copy of this id's record another call has
\* overwritten since the copy was taken
SavesStaleCopy(id) ==
    /\ backend = Redis
    /\ \E c \in Callers :
          /\ inflight[c].op = "SendNotification" /\ inflight[c].pc = "save"
          /\ inflight[c].n.id = id /\ inflight[c].n.status = StatusPending
          /\ inflight[c].overlapped

C13_StoredRecordsAreValid ==
    \A id \in DOMAIN store :
        /\ store[id].recipient # ""
        /\ store[id].type # ""
        /\ store[id].templateType # ""
        /\ Validate(store[id]) = Nil

(***************************************************************************)
(* Properties of the notification repositories.  A call that returned is   *)
(* undisturbed when no other caller and no expiry changed what it works on *)
(* while it was in progress.                                               *)
(***************************************************************************)

\* C14: in both backends FindByID for a (well-formed) id with no stored
\* record returns no notification and no error; FindByID returns an error
\* only when the lookup itself fails.
C14_AbsentIsNotAnError ==
    (opCall.op = "FindByID" /\ WellFormedID(opCall.id))
    => /\ (opResult.err # Nil) <=> ~opCall.ioOk
       /\ (opCall.id \notin DOMAIN store /\ opCall.ioOk) => opResult = NotFound

\* an id without a record is looked up while another record is stored
C14_Witness ==
    /\ opCall.op = "FindByID" /\ WellFormedID(opCall.id) /\ opCall.ioOk
    /\ opCall.id \notin DOMAIN store /\ DOMAIN store # {}
    /\ opResult = NotFound

\* the stored notifications of recipient r
StoredFor(r) == {id \in DOMAIN store : store[id].recipient = r}

\* the recipient index lists exactly the stored records, each under its own
\* recipient with the score of its createdAt
IndexMatchesStore ==
    /\ \A e \in index : /\ e.member \in DOMAIN store
                        /\ store[e.member].recipient = e.key
                        /\ e.score = Unix(store[e.member].createdAt)
    /\ \A id \in DOMAIN store : \E e \in index : e.member = id

\* the notifications of r ranked offset .. offset+limit-1, newest first
RankedPage(r, limit, offset) ==
    LET newer == {p \in StoredFor(r) \X StoredFor(r) :
                     store[p[1]].createdAt > store[p[2]].createdAt}
        s == CHOOSE o \in Orderings(StoredFor(r), newer) : TRUE
    IN  [i \in 1..(Min(offset + limit, Len(s)) - Min(offset, Len(s))) |->
            store[s[offset + i]]]

\* C15: when the stored notifications of recipient r have pairwise distinct
\* createdAt values, however little they differ, an undisturbed
\* FindByRecipient(r, limit, offset) with limit >= 1 returns exactly those
\* ranked offset .. offset+limit-1 by descending createdAt, in both
\* backends, so pages neither overlap nor skip.
C15_PagesNewestFirst ==
    (/\ opCall.op = "FindByRecipient" /\ opCall.ioOk /\ opCall.limit >= 1
     /\ opCall.during = {}
     /\ \A x, y \in StoredFor(opCall.recipient) :
            x # y => store[x].createdAt # store[y].createdAt
     /\ backend = Redis => IndexMatchesStore)
    => /\ opResult.err = Nil
       /\ opResult.found = RankedPage(opCall.recipient, opCall.limit, opCall.offset)

\* C16: an undisturbed FindByRecipient for a recipient that has no stored
\* notifications returns an empty sequence and no error, in both backends
\* and for any limit and offset.
C16_NoneStoredIsEmpty ==
    (/\ opCall.op = "FindByRecipient" /\ opCall.ioOk /\ opCall.during = {}
     /\ StoredFor(opCall.recipient) = {})
    => opResult = [err |-> Nil, found |-> <<>>]

\* C17: in both backends an undisturbed Update of a notification whose id
\* has no stored record returns a not-found error and leaves the store
\* unchanged; Update of an existing id succeeds, and FindByID then returns
\* the updated status and subject.
C17_UpdateNeedsARecord ==
    [][(opCall'.op = "Update" /\ opCall'.ioOk /\ opCall'.during = {})
        => IF opCall'.id \notin DOMAIN store
           THEN /\ opResult'.err = "notification not found"
                /\ store' = store /\ index' = index
           ELSE LET f == RepoFindByID(backend,
                             [CurrentRepo EXCEPT !.store = store', !.index = index'],
                             opCall'.id, TRUE)
                IN  /\ opResult'.err = Nil
                    /\ f.err = Nil /\ Len(f.found) = 1
                    /\ f.found[1].status = opCall'.n.status
                    /\ f.found[1].subject = opCall'.n.subject]_vars

\* an Update for an id without a record is refused while another is stored
C17_Witness ==
    /\ opCall.op = "Update" /\ opCall.ioOk /\ opCall.during = {}
    /\ opResult.err = "notification not found"
    /\ opCall.id \notin DOMAIN store /\ DOMAIN store # {}

\* C18: notification delete is idempotent in both backends: an undisturbed
\* delete of an id that has no stored record (never saved, or deleted
\* before) returns no error and leaves the store unchanged.
C18_DeleteIsIdempotent ==
    [][(/\ opCall'.op = "Delete" /\ opCall'.ioOk /\ opCall'.during = {}
        /\ opCall'.id \notin DOMAIN store)
        => /\ opResult'.err = Nil
           /\ store' = store /\ index' = index]_vars

\* the pages of recipient r a caller reads from a repository when no other
\* caller is at work
PagesOf(repo, r) ==
    UNION {RunAlone(backend, repo,
                    [NoCall EXCEPT !.op = "FindByRecipient", !.recipient = r,
                                   !.limit = limit, !.offset = offset], now) :
              limit \in Limits, offset \in Offsets}

\* C19: in the cache-oriented backend, once an undisturbed DeleteByID(id) of
\* a saved notification has succeeded, FindByID(id) finds nothing and no
\* page of FindByRecipient for that notification's recipient contains it:
\* the record and its entry in that recipient's index go together.
C19_DeleteRemovesRecordAndEntry ==
    [][(/\ backend = Redis /\ opCall'.op = "Delete" /\ opCall'.during = {}
        /\ opCall'.id \in DOMAIN store /\ opResult'.err = Nil)
        => LET id   == opCall'.id
               r    == store[id].recipient
               repo == [CurrentRepo EXCEPT !.store = store', !.index = index',
                                           !.expiry = expiry']
           IN  /\ RedisFindByID(repo, id, TRUE) = NotFound
               /\ ~\E e \in index' : e.key = r /\ e.member = id
               /\ \A x \in PagesOf(repo, r) :
                     \A i \in 1..Len(x.res.found) : x.res.found[i].id # id]_vars

\* a successful DeleteByID has removed a record that had been saved (the id
\* is still remembered under a recipient it once had)
C19_Witness ==
    /\ backend = Redis /\ opCall.op = "Delete" /\ opResult.err = Nil
    /\ opCall.during = {} /\ opCall.seen # <<>>
    /\ opCall.id \notin DOMAIN store
    /\ \E e \in index : e.member = opCall.id
    /\ \E e \in index : e.member # opCall.id /\ e.member \in DOMAIN store

\* C20: round trip: in both backends Save(n) followed by FindByID(n.id)
\* returns a notification equal to n in every field; an empty templateData
\* or metadata map is read back as an empty map.
C20_SaveThenFindIsIdentity ==
    (opCall.op = "Save" /\ opResult.err = Nil)
    => RepoFindByID(backend, CurrentRepo, opCall.id, TRUE)
         = [err |-> Nil, found |-> <<opCall.n>>]

(***************************************************************************)
(* Retention                                                               *)
(***************************************************************************)

\* C21: in the cache-oriented backend a record and its entry in the
\* recipient index expire together: whenever no call is in progress, after
\* any Save, Update and DeleteByID calls and any passage of time, an id is
\* listed in its recipient's index if and only if its record still exists.
C21_RecordAndEntryExpireTogether ==
    (backend = Redis /\ IdleSlots = Callers)
    => \A id \in RepoIDs, r \in RepoRecipients :
          (\E e \in index : e.key = r /\ e.member = id)
            <=> (id \in DOMAIN store /\ store[id].recipient = r)

(***************************************************************************)
(* Templates                                                               *)
(***************************************************************************)
\* C22: in both template backends a successful Update of a stored template
\* raises the stored version by exactly one over the version stored before the
\* call, whatever version the caller handed in.
C22_UpdateBumpsStoredVersion ==
    [][\A id \in TemplateIDs :
          (/\ id \in DOMAIN templates
           /\ opCall'.op = "Template.Update"
           /\ opCall'.id = id
           /\ opResult'.err = Nil)
          => /\ id \in DOMAIN templates'
             /\ templates'[id].version = templates[id].version + 1]_vars

\* C23: in both template backends Update of an id with no stored record
\* returns a not-found error and creates no record.
C23_TemplateUpdateNeedsARecord ==
    [][\A id \in TemplateIDs :
          (/\ id \notin DOMAIN templates
           /\ opCall'.op = "Template.Update"
           /\ opCall'.id = id
           /\ opCall'.ioOk)
          => /\ opResult'.err # Nil
             /\ id \notin DOMAIN templates'
             /\ TemplateFindByID(backend,
                    [CurrentTemplateRepo EXCEPT !.store = templates', !.index = typeIndex'],
                    id, TRUE).found = <<>>]_vars

\* C24: in both template backends an undisturbed Delete of an id with no
\* stored template returns no error.
C24_TemplateDeleteIsIdempotent ==
    [][\A id \in TemplateIDs :
          (/\ id \notin DOMAIN templates
           /\ opCall'.op = "Template.Delete"
           /\ opCall'.id = id
           /\ opCall'.ioOk /\ opCall'.during = {})
          => opResult'.err = Nil]_vars

\* the ids of the templates a listing returned
ListedIDs(r) == {r.found[i].id : i \in 1..Len(r.found)}

\* a listing returns the stored templates with these ids, each once, as stored
ListsExactly(r, ids) ==
    /\ r.err = Nil
    /\ Len(r.found) = Cardinality(ids)
    /\ ListedIDs(r) = ids
    /\ \A i \in 1..Len(r.found) : r.found[i] = templates[r.found[i].id]

\* C25: after any sequence of template Save, Update and Delete calls, an
\* undisturbed FindByType(t) returns exactly the stored templates whose
\* current type is t and FindActiveByType(t) exactly the active ones among
\* them.
C25_TypeListingsAreExact ==
    (/\ opCall.op \in {"Template.FindByType", "Template.FindActiveByType"}
     /\ opCall.ioOk /\ opCall.during = {})
    => LET typed == {id \in DOMAIN templates : templates[id].type = opCall.type}
           active == {id \in typed : templates[id].isActive}
       IN  ListsExactly(opResult,
               IF opCall.op = "Template.FindByType" THEN typed ELSE active)

\* the stored templates a rendering by this name may use
ActiveNamed(name) ==
    {id \in DOMAIN templates : templates[id].name = name /\ templates[id].isActive}

\* the call that returned was ProcessTemplate
Rendered == opCall.op = "ProcessTemplate"

\* C26: ProcessTemplate(name, data) returns a template-not-found error when no
\* stored template has that name and is active, and when it succeeds its
\* content is that of an active template with that name.
C26_RendersOnlyActiveTemplates ==
    Rendered
    => /\ ActiveNamed(opCall.name) = {}
            => opResult.err = Errorf("failed to find template",
                                     Errorf("template not found", opCall.name))
       /\ opResult.err = Nil
            => \E id \in ActiveNamed(opCall.name) :
                  opResult.content = templates[id].content

\* an inactive and an active template share the name, and the rendering
\* succeeded
C26_Witness ==
    /\ Rendered
    /\ opResult.err = Nil
    /\ ActiveNamed(opCall.name) # {}
    /\ \E id \in DOMAIN templates :
          templates[id].name = opCall.name /\ ~templates[id].isActive

\* the content with every placeholder replaced by the value data binds its key to
Substituted(content, data) ==
    [i \in 1..Len(content) |->
        IF content[i].key # "" /\ content[i].key \in DOMAIN data
        THEN Lit(data[content[i].key]) ELSE content[i]]

\* C27: a successful ProcessTemplate(name, data) returns the named active
\* template's content with every placeholder replaced by the value of data,
\* which differs from the raw content when the template has a placeholder.
C27_RenderingSubstitutesData ==
    (Rendered /\ opResult.err = Nil)
    => \E id \in ActiveNamed(opCall.name) :
          /\ opResult.content = Substituted(templates[id].content, RenderData)
          /\ opResult.content # templates[id].content

(***************************************************************************)
(* Subscribed event types                                                  *)
(***************************************************************************)
\* the topics the README lists under "Event Subscriptions"
SubscribedTopics ==
    {"user.registered", "user.verified", "user.password.reset",
     "user.password.changed", "user.deleted"}

\* C30: HandleUserEvent for each of the five subscribed event types is routed
\* to a handler and does not return an unknown-event-type error.
C30_SubscribedTypesAreHandled ==
    (IsEvent /\ lastCall.eventType \in SubscribedTopics)
    => lastErr # "unknown event type: " \o lastCall.eventType

(***************************************************************************)
(* Redelivery                                                              *)
(***************************************************************************)
\* C29: when the same recognised event has been handled k times, with
\* render, store and provider succeeding every time, and no handling is in
\* progress, k notifications with k distinct ids are stored and the email
\* provider was invoked k times.
C29_NoDeduplication ==
    (deliveries.allOk /\ IdleCallers = Callers)
    => /\ Cardinality(DOMAIN store) = deliveries.handled
       /\ \A id \in DOMAIN store :
             store[id].id = id /\ store[id].recipient = "a@x"
       /\ deliveries.providerCalls = deliveries.handled

\* the same event was handled more than once, successfully every time
C29_Witness ==
    /\ deliveries.allOk
    /\ IdleCallers = Callers
    /\ deliveries.handled >= 2
    /\ Cardinality(DOMAIN store) >= 2

(***************************************************************************)
(* Stream consumer                                                         *)
(***************************************************************************)
\* the messages a claim's loop has taken from its channel
ReceivedBy(cl) == cl.produced - Len(cl.channel)

LoopRound == <<"call", "return", "mark">>

\* C28: within a claim HandleUserEvent is called exactly once per received
\* message, one message at a time in arrival order, and a message is marked
\* only after the call for it has returned.
C28_HandledOnceInOrderThenMarked ==
    \A c \in Claims :
        LET cl == consumer.claims[c]
            calledFor == {i \in 1..Len(cl.log) : cl.log[i].ev = "call"}
        IN  /\ Cardinality(calledFor) = ReceivedBy(cl)
            /\ \A i \in 1..Len(cl.log) :
                  /\ cl.log[i].ev = LoopRound[((i - 1) % 3) + 1]
                  /\ cl.log[i].offset = ((i - 1) \div 3) + 1
            /\ \A i \in 1..Len(cl.log) :
                  cl.log[i].ev = "mark"
                  => \E j \in 1..(i - 1) :
                        cl.log[j].ev = "return" /\ cl.log[j].offset = cl.log[i].offset

\* one claim has handled and marked two messages while another is in the
\* middle of a call
C28_Witness ==
    \E c, d \in Claims :
        /\ c # d
        /\ Len(consumer.claims[c].log) = 6
        /\ consumer.claims[d].pc = "handling"

(***************************************************************************)
(* HTTP API                                                                *)
(***************************************************************************)
\* the request answered in this step reached the service
ServiceCalled == http.serviceCalls # <<>>

\* C31: GetNotification answers 200 for a found notification, 404 when the
\* service returns no notification and no error, and 424 when the service
\* returns an error.
C31_GetMapsResultToStatus ==
    (http.route = "GET /notifications/{id}" /\ ServiceCalled)
    => LET res == http.serviceCalls[1]
       IN  /\ res.err # Nil => http.status = StatusCode.FailedDependency
           /\ (res.err = Nil /\ res.found) => http.status = StatusCode.OK
           /\ (res.err = Nil /\ ~res.found) => http.status = StatusCode.NotFound

\* a notification is stored and another id is asked for: 404
C31_Witness ==
    /\ http.route = "GET /notifications/{id}"
    /\ store # EmptyRepo.store
    /\ ServiceCalled
    /\ http.serviceCalls[1].err = Nil
    /\ ~http.serviceCalls[1].found
    /\ http.status = StatusCode.NotFound

\* C32: SendNotification calls the service exactly once for a decodable body
\* and answers 201 exactly if the service returns no error, 424 otherwise; an
\* undecodable body gets 400 without a service call, and so does
\* GetNotificationsByRecipient without a recipient.
C32_SendAndListStatuses ==
    /\ http.route = "POST /notifications"
        => IF http.request.decodable
           THEN /\ Len(http.serviceCalls) = 1
                /\ http.status = StatusCode.Created <=> http.serviceCalls[1].err = Nil
                /\ http.serviceCalls[1].err # Nil
                      => http.status = StatusCode.FailedDependency
           ELSE http.status = StatusCode.BadRequest /\ ~ServiceCalled
    /\ (http.route = "GET /notifications" /\ http.request = "")
        => http.status = StatusCode.BadRequest /\ ~ServiceCalled

\* the service failed after storing the notification: 424
C32_Witness ==
    /\ http.route = "POST /notifications"
    /\ http.request.decodable
    /\ store # EmptyRepo.store
    /\ http.serviceCalls[1].err # Nil
    /\ http.status = StatusCode.FailedDependency

(***************************************************************************)
(* The two notification backends side by side                              *)
(***************************************************************************)
OtherBackend(b) == IF b = Redis THEN Postgres ELSE Redis

\* the recipient index the cache backend holds when every stored
\* notification was saved once and none changed its recipient
IndexOf(st) ==
    {[key |-> st[id].recipient, score |-> Unix(st[id].createdAt), member |-> id] :
        id \in DOMAIN st}

\* what a caller can observe of a repository call: whether it failed, and the
\* records it returned
Observed(err, found) == [failed |-> err # Nil, found |-> found]

\* the observations backend b can give for a call made on a repository, with
\* no other caller at work
ObservationsOf(b, repo, call) ==
    {Observed(x.res.err, x.res.found) : x \in RunAlone(b, repo, call, now)}

\* C33: the two notification backends are observationally equivalent: an
\* undisturbed call made on the same stored notifications (the template
\* they refer to being there) gives the same found, not-found or error
\* outcome and the same records in both.
C33_BackendsAgree ==
    [][(/\ opCall'.op \in {"Save", "Update", "Delete", "FindByID", "FindByRecipient"}
        /\ opCall'.ioOk /\ opCall'.during = {}
        /\ backend = Redis => index = IndexOf(store)
        /\ backend = Postgres => TemplateRef \in DOMAIN templates)
       => Observed(opResult'.err, opResult'.found)
             \in ObservationsOf(OtherBackend(backend),
                    [store |-> store, index |-> IndexOf(store), expiry |-> NoExpiry,
                     templateIDs |-> {TemplateRef}],
                    opCall')]_vars

(***************************************************************************)
(* Retries and the frame of the pipeline                                   *)
(***************************************************************************)
\* the retry count of the notification when the orchestrator received it
HandedRetryCount == IF IsSend THEN lastCall.n.retryCount ELSE 0

\* C34: a pipeline invocation issues at most one provider send, also when the
\* send fails, and never changes retryCount: what it writes carries the retry
\* count the notification was handed in with, and so does what is stored
\* when no other call wrote the same id meanwhile.
C34_NoAutomaticRetry ==
    (IsSend \/ IsEvent)
    => /\ Cardinality(CallsOf(ProviderOps)) <= 1
       /\ \A i \in CallsOf({"Save", "Update"}) :
             /\ calls[i].n.retryCount = HandedRetryCount
             /\ (calls[i].err = Nil /\ Undisturbed)
                  => /\ calls[i].n.id \in DOMAIN store
                     /\ store[calls[i].n.id].retryCount = HandedRetryCount

\* a notification handed in with a counted retry: its send failed and the
\* failure was stored
C34_Witness ==
    /\ IsSend
    /\ Undisturbed
    /\ lastCall.n.retryCount >= 1
    /\ ProviderFailed
    /\ UpdateSucceeded
    /\ store[lastCall.n.id].status = StatusFailed
    /\ store[lastCall.n.id].retryCount = lastCall.n.retryCount

\* the fields of a notification the pipeline may not change
FrameFields ==
    {"id", "recipient", "type", "subject", "content", "priority", "templateId",
     "templateType", "templateData", "metadata", "retryCount", "createdAt"}

SameFrame(a, b) == \A f \in FrameFields : a[f] = b[f]

\* the record the backend holds right after the pipeline's Save
InitiallySaved ==
    RepoSave(backend, [EmptyRepo EXCEPT !.templateIDs = {SavedN.templateId}],
             SavedN, TRUE, now).repo.store[SavedN.id]

\* C35: between the Save and the Update of one pipeline invocation only
\* status, errorMessage and updatedAt change: every other field of the finally
\* stored record equals that of the initially saved record.
C35_PipelineFrame ==
    ((IsSend \/ IsEvent) /\ SaveSucceeded /\ UpdateSucceeded)
    => /\ SavedN.id \in DOMAIN store
       /\ SameFrame(store[SavedN.id], InitiallySaved)
       /\ \A i \in CallsOf({"Update"}) : SameFrame(calls[i].n, SavedN)

\* a pipeline ran to its Update and the stored status is no longer pending
C35_Witness ==
    /\ IsSend
    /\ SaveSucceeded
    /\ UpdateSucceeded
    /\ store[SavedN.id].status = StatusSent
    /\ store[SavedN.id].content # ""
    /\ InitiallySaved.status = StatusPending

(***************************************************************************)
(* Concurrent Update and DeleteByID                                        *)
(***************************************************************************)
\* C36: in the cache backend, once a DeleteByID(id) has returned successfully
\* and a concurrent Update of the same id has returned, FindByID(id) returns
\* not found, under every interleaving of the two.
C36_UpdateNeverRecreates ==
    (/\ backend = Redis
     /\ \/ opCall.op = "Update" /\ opCall.during = {"Delete"}
        \/ opCall.op = "Delete" /\ opResult.err = Nil /\ opCall.during = {"Update"})
    => RedisFindByID(CurrentRepo, opCall.id, TRUE).found = <<>>

(***************************************************************************)
(* Pages and recipients                                                    *)
(***************************************************************************)
\* the call that returned was a FindByRecipient that succeeded, undisturbed
Listed == opCall.op = "FindByRecipient" /\ opResult.err = Nil /\ opCall.during = {}

\* C37: FindByRecipient(r, limit, offset) never returns more than limit
\* notifications, in both backends; limit = 0 returns none.
C37_PageWithinLimit ==
    Listed => Len(opResult.found) <= opCall.limit

\* C38: in the cache backend every notification FindByRecipient(r, ...)
\* returns has recipient r, and, whenever no call is in progress, each
\* stored notification is listed under exactly one recipient.
C38_ListedUnderItsRecipient ==
    backend = Redis
    => /\ Listed => \A i \in 1..Len(opResult.found) :
                        opResult.found[i].recipient = opCall.recipient
       /\ IdleSlots = Callers
            => \A id \in DOMAIN store :
                  Cardinality({e.key : e \in {x \in index : x.member = id}}) = 1

\* positions in a claim's log of the calls that returned an error
FailedReturns(cl) == {i \in 1..Len(cl.log) : cl.log[i].ev = "return" /\ cl.log[i].err # Nil}

\* C39: a message whose HandleUserEvent call returns an error is still marked,
\* the loop goes on with the next message, and the message is not handled a
\* second time: the failure never stops the claim loop.
C39_FailureIsMarkedAndSkipped ==
    \A c \in Claims :
        LET cl == consumer.claims[c]
        IN  /\ \A i \in FailedReturns(cl) :
                  /\ i = Len(cl.log) => cl.pc = "mark"
                  /\ i < Len(cl.log)
                        => /\ cl.log[i + 1].ev = "mark"
                           /\ cl.log[i + 1].offset = cl.log[i].offset
                  /\ Cardinality({j \in 1..Len(cl.log) :
                        cl.log[j].ev = "call" /\ cl.log[j].offset = cl.log[i].offset}) = 1
            /\ (cl.pc = "returned" /\ ~consumer.ctxDone)
                  => cl.closed /\ cl.channel = <<>>

\* the first message of a claim failed, was marked, and the second message
\* was handled after it
C39_Witness ==
    \E c \in Claims :
        LET cl == consumer.claims[c]
        IN  /\ Len(cl.log) = 6
            /\ cl.log[2].err # Nil
            /\ cl.log[3].ev = "mark"
            /\ cl.log[4].ev = "call" /\ cl.log[4].offset = 2

(***************************************************************************)
(* Consumer.Start                                                          *)
(***************************************************************************)
\* a consumer-group session has been set up
SetupCalled == startup.closed # {}

\* C40: once a session has been set up Consumer.Start eventually returns,
\* under every interleaving of Start with its goroutine, and the ready channel
\* is never closed twice.
C40_StartReturnsAfterSetup ==
    /\ [](~startup.closedTwice)
    /\ SetupCalled ~> (startup.main = "returned")

====
